---- MODULE Spec2Model ----
(***************************************************************************)
(* Brick-map voxel world of the WebGL2 voxel engine (src/showcase.js):     *)
(* the sparse two-level volume BrickMapWorld (coarse grid + brick store),  *)
(* its atlas projection, and the callers that mutate it.                   *)
(*                                                                         *)
(* A BrickMapWorld object is the record `world`; its fields carry the      *)
(* names of the JavaScript fields.  Typed arrays are functions on          *)
(* 0..length-1, the Map of bricks is a function on its keys, null is the   *)
(* empty function for brickAtlasData and the record Null for a returned    *)
(* voxel.                                                                  *)
(***************************************************************************)
EXTENDS Integers, Sequences, FiniteSets, TLC

\* ------------------------------------------------------------------------
\* Sizes.  brickSize and the coarse sizes are constructor arguments; the
\* atlas edge is the constructor's fixed field (64 in the source), scaled
\* here so that a coarse grid can both fit the atlas (C <= A) and exceed
\* it (C > A), as 64 and 128 do against 64 in the source.
\* ------------------------------------------------------------------------
brickSize == 2

MaxCoarseSize == 3

atlasSize == 2

\* Budget of setVoxel calls (and scene loads) in one behaviour.
MaxOps == 3

CoarseSizes == 1..MaxCoarseSize

VARIABLES
    world,      \* the BrickMapWorld object
    ret,        \* the last call and what it returned: the boolean of setVoxel,
                \* the voxel of getVoxel, the count of countVoxels
    ops,        \* number of mutating calls made so far (budget)
    written,    \* coordinate -> record last written there since the most recent
                \* clear / construction, for the writes that were accepted
    issued,     \* brick indices issued since the most recent clear, in order
    issuedBefore, \* brick index values issued before the most recent clear
    gpu,        \* the two 3-D textures and the uniforms the fragment shader reads
    hit,        \* the last ray query and what the shader computed for it
    app,        \* the showcase application: its settings and its statistics display
    dense,      \* a VoxelWorld of the same size, given the same setVoxel, getVoxel,
                \* clear and countVoxels calls as world
    denseRet    \* what the last call on dense returned

vars == <<world, ret, ops, written, issued, issuedBefore, gpu, hit, app, dense, denseRet>>

\* ------------------------------------------------------------------------
\* JavaScript primitives
\* ------------------------------------------------------------------------
\* Storing a number into a Uint8Array element keeps it modulo 2^8.
ToUint8(v) == v % 256

\* The JavaScript remainder takes the sign of the dividend.
JsRem(a, b) == IF a >= 0 THEN a % b ELSE 0 - ((0 - a) % b)

\* new Uint8Array(n): n zero bytes.
NewUint8Array(n) == [i \in 0..(n - 1) |-> 0]

\* typedArray[i] = v : a store outside 0..length-1 is ignored.
StoreU8(arr, i, v) == IF i \in DOMAIN arr THEN [arr EXCEPT ![i] = ToUint8(v)] ELSE arr

\* map.set(k, v)
MapSet(m, k, v) == [i \in (DOMAIN m) \cup {k} |-> IF i = k THEN v ELSE m[i]]

\* TLC hands an operator its arguments unevaluated; Computed(v) is TRUE and
\* has v evaluated, so that a loop's accumulator is a value at each turn.
Computed(v) == v = v

\* An empty Map / the null reference of brickAtlasData.
EmptyMap == [i \in {} |-> 0]

\* getVoxel's null.
Null == [null |-> TRUE]

\* The record {r, g, b, a} of a tuple <<r, g, b, a>>.
Rec(v) == [r |-> v[1], g |-> v[2], b |-> v[3], a |-> v[4]]

\* ------------------------------------------------------------------------
\* BrickMapWorld
\* ------------------------------------------------------------------------
BrickMapWorld(cs, bs) ==
    [ coarseSize     |-> cs,
      brickSize      |-> bs,
      worldSize      |-> cs * bs,
      coarseGrid     |-> [i \in 0..(cs * cs * cs - 1) |-> 0],
      bricks         |-> EmptyMap,
      nextBrickIndex |-> 1,
      atlasSize      |-> atlasSize,
      brickAtlasData |-> EmptyMap,
      voxelCount     |-> 0,
      brickCount     |-> 0 ]

getCoarseIndex(w, cx, cy, cz) ==
    IF \/ cx < 0 \/ cx >= w.coarseSize
       \/ cy < 0 \/ cy >= w.coarseSize
       \/ cz < 0 \/ cz >= w.coarseSize
    THEN -1
    ELSE cx + cy * w.coarseSize + cz * w.coarseSize * w.coarseSize

worldToCoarse(w, x, y, z) ==
    << x \div w.brickSize, y \div w.brickSize, z \div w.brickSize >>

worldToLocal(w, x, y, z) ==
    << JsRem(x, w.brickSize), JsRem(y, w.brickSize), JsRem(z, w.brickSize) >>

\* Variant: the slot index without its lz term.
getBrickLocalIndexNoZ(w, lx, ly, lz) ==
    (lx + ly * w.brickSize) * 4

getBrickLocalIndex(w, lx, ly, lz) ==
    (lx + ly * w.brickSize + lz * w.brickSize * w.brickSize) * 4

\* Variant: allocates a brick on every call, also for a cell that has one.
getOrCreateBrickAlways(w, cx, cy, cz) ==
    LET coarseIdx == getCoarseIndex(w, cx, cy, cz) IN
    IF coarseIdx < 0 THEN [w |-> w, brick |-> 0]
    ELSE LET brickIndex == w.nextBrickIndex
             brickData  == NewUint8Array(w.brickSize * w.brickSize * w.brickSize * 4)
         IN [ w |-> [w EXCEPT !.nextBrickIndex = @ + 1,
                              !.coarseGrid[coarseIdx] = brickIndex,
                              !.bricks = MapSet(@, brickIndex, brickData),
                              !.brickCount = @ + 1],
              brick |-> brickIndex ]

\* Variant: the new brick is not registered in the brick store.
getOrCreateBrickNoStore(w, cx, cy, cz) ==
    LET coarseIdx == getCoarseIndex(w, cx, cy, cz) IN
    IF coarseIdx < 0 THEN [w |-> w, brick |-> 0]
    ELSE
      IF w.coarseGrid[coarseIdx] = 0
      THEN [ w |-> [w EXCEPT !.nextBrickIndex = @ + 1,
                             !.coarseGrid[coarseIdx] = w.nextBrickIndex,
                             !.brickCount = @ + 1],
             brick |-> 0 ]
      ELSE [ w |-> w,
             brick |-> IF w.coarseGrid[coarseIdx] \in DOMAIN w.bricks
                       THEN w.coarseGrid[coarseIdx] ELSE 0 ]

\* Variant: nextBrickIndex is read but not advanced.
getOrCreateBrickSameIndex(w, cx, cy, cz) ==
    LET coarseIdx == getCoarseIndex(w, cx, cy, cz) IN
    IF coarseIdx < 0 THEN [w |-> w, brick |-> 0]
    ELSE
      IF w.coarseGrid[coarseIdx] = 0
      THEN LET brickIndex == w.nextBrickIndex
               brickData  == NewUint8Array(w.brickSize * w.brickSize * w.brickSize * 4)
           IN [ w |-> [w EXCEPT !.coarseGrid[coarseIdx] = brickIndex,
                                !.bricks = MapSet(@, brickIndex, brickData),
                                !.brickCount = @ + 1],
                brick |-> brickIndex ]
      ELSE [ w |-> w,
             brick |-> IF w.coarseGrid[coarseIdx] \in DOMAIN w.bricks
                       THEN w.coarseGrid[coarseIdx] ELSE 0 ]

\* Returns the world after the call and the key of the brick handed back
\* (0 for null).
getOrCreateBrick(w, cx, cy, cz) ==
    LET coarseIdx == getCoarseIndex(w, cx, cy, cz) IN
    IF coarseIdx < 0 THEN [w |-> w, brick |-> 0]
    ELSE
      IF w.coarseGrid[coarseIdx] = 0
      THEN LET brickIndex == w.nextBrickIndex
               brickData  == NewUint8Array(w.brickSize * w.brickSize * w.brickSize * 4)
           IN [ w |-> [w EXCEPT !.nextBrickIndex = @ + 1,
                                !.coarseGrid[coarseIdx] = brickIndex,
                                !.bricks = MapSet(@, brickIndex, brickData),
                                !.brickCount = @ + 1],
                brick |-> brickIndex ]
      ELSE [ w |-> w,
             brick |-> IF w.coarseGrid[coarseIdx] \in DOMAIN w.bricks
                       THEN w.coarseGrid[coarseIdx] ELSE 0 ]

OutOfWorld(w, x, y, z) ==
    \/ x < 0 \/ x >= w.worldSize
    \/ y < 0 \/ y >= w.worldSize
    \/ z < 0 \/ z >= w.worldSize

\* Variant: the alpha byte is stored as 255 whatever a is.
storeRecordOpaque(brick, idx, r, g, b, a) ==
    LET b1 == StoreU8(brick, idx, r)
        b2 == StoreU8(b1, idx + 1, g)
        b3 == StoreU8(b2, idx + 2, b)
    IN StoreU8(b3, idx + 3, 255)

\* The four byte stores of setVoxel into the brick.
storeRecord(brick, idx, r, g, b, a) ==
    LET b1 == StoreU8(brick, idx, r)
        b2 == StoreU8(b1, idx + 1, g)
        b3 == StoreU8(b2, idx + 2, b)
    IN StoreU8(b3, idx + 3, a)

\* Variant: a record with a = 0 is dropped after the brick was fetched.
setVoxelSkipEmpty(w, x, y, z, r, g, b, a) ==
    IF OutOfWorld(w, x, y, z) THEN [w |-> w, val |-> FALSE]
    ELSE
      LET c   == worldToCoarse(w, x, y, z)
          l   == worldToLocal(w, x, y, z)
          got == getOrCreateBrick(w, c[1], c[2], c[3])
      IN IF got.brick = 0 \/ a = 0 THEN [w |-> got.w, val |-> FALSE]
         ELSE
           LET idx == getBrickLocalIndex(w, l[1], l[2], l[3])
           IN [ w |-> [got.w EXCEPT !.bricks[got.brick] =
                                      storeRecord(@, idx, r, g, b, a)],
                val |-> TRUE ]

\* Returns [w |-> world after the call, val |-> returned boolean].
setVoxel(w, x, y, z, r, g, b, a) ==
    IF OutOfWorld(w, x, y, z) THEN [w |-> w, val |-> FALSE]
    ELSE
      LET c   == worldToCoarse(w, x, y, z)
          l   == worldToLocal(w, x, y, z)
          got == getOrCreateBrick(w, c[1], c[2], c[3])
      IN IF got.brick = 0 THEN [w |-> got.w, val |-> FALSE]
         ELSE
           LET idx == getBrickLocalIndex(w, l[1], l[2], l[3])
           IN [ w |-> [got.w EXCEPT !.bricks[got.brick] =
                                      storeRecord(@, idx, r, g, b, a)],
                val |-> TRUE ]

\* Variant: the read goes through getOrCreateBrick, as the write does.
readVoxelCreate(w, x, y, z) ==
    LET c   == worldToCoarse(w, x, y, z)
        got == getOrCreateBrick(w, c[1], c[2], c[3])
    IN IF got.brick = 0 THEN [w |-> got.w, val |-> Null]
       ELSE
         LET brick == got.w.bricks[got.brick]
             l     == worldToLocal(w, x, y, z)
             idx   == getBrickLocalIndex(w, l[1], l[2], l[3])
         IN [ w |-> got.w,
              val |-> [ r |-> brick[idx], g |-> brick[idx + 1],
                        b |-> brick[idx + 2], a |-> brick[idx + 3] ] ]

\* The read of an in-world coordinate (the part of getVoxel after its
\* bounds check).
readVoxel(w, x, y, z) ==
    LET c         == worldToCoarse(w, x, y, z)
        coarseIdx == getCoarseIndex(w, c[1], c[2], c[3])
    IN IF coarseIdx < 0 THEN [w |-> w, val |-> Null]
       ELSE IF w.coarseGrid[coarseIdx] = 0
            THEN [w |-> w, val |-> [r |-> 0, g |-> 0, b |-> 0, a |-> 0]]
       ELSE IF w.coarseGrid[coarseIdx] \notin DOMAIN w.bricks THEN [w |-> w, val |-> Null]
       ELSE
         LET brick == w.bricks[w.coarseGrid[coarseIdx]]
             l     == worldToLocal(w, x, y, z)
             idx   == getBrickLocalIndex(w, l[1], l[2], l[3])
         IN [ w |-> w,
              val |-> [ r |-> brick[idx], g |-> brick[idx + 1],
                        b |-> brick[idx + 2], a |-> brick[idx + 3] ] ]

\* Variant: a coordinate outside the world reads as an empty voxel.
getVoxelEmptyOutside(w, x, y, z) ==
    IF OutOfWorld(w, x, y, z) THEN [w |-> w, val |-> [r |-> 0, g |-> 0, b |-> 0, a |-> 0]]
    ELSE readVoxel(w, x, y, z)

\* Returns [w |-> world after the call, val |-> the voxel record or Null].
getVoxel(w, x, y, z) ==
    IF OutOfWorld(w, x, y, z) THEN [w |-> w, val |-> Null]
    ELSE readVoxel(w, x, y, z)

\* Variant: the coarse grid is not wiped.
clearKeepsGrid(w) ==
    [w EXCEPT !.bricks = EmptyMap,
              !.nextBrickIndex = 1,
              !.voxelCount = 0,
              !.brickCount = 0]

\* Variant: the index allocator is not reset.
clearKeepsIndex(w) ==
    [w EXCEPT !.coarseGrid = [i \in DOMAIN w.coarseGrid |-> 0],
              !.bricks = EmptyMap,
              !.voxelCount = 0,
              !.brickCount = 0]

\* Variant: the brick counter is not reset.
clearKeepsBrickCount(w) ==
    [w EXCEPT !.coarseGrid = [i \in DOMAIN w.coarseGrid |-> 0],
              !.bricks = EmptyMap,
              !.nextBrickIndex = 1,
              !.voxelCount = 0]

clear(w) ==
    [w EXCEPT !.coarseGrid = [i \in DOMAIN w.coarseGrid |-> 0],
              !.bricks = EmptyMap,
              !.nextBrickIndex = 1,
              !.voxelCount = 0,
              !.brickCount = 0]

\* Variant: the scan starts at byte 0, so it tests the red bytes.
BrickOccupiedFromZero(brick) ==
    Cardinality({ i \in DOMAIN brick : i % 4 = 0 /\ brick[i] > 0 })

\* Occupied slots of one brick: the alpha bytes i = 3, 7, 11, ... that are > 0.
BrickOccupied(brick) ==
    Cardinality({ i \in DOMAIN brick : i % 4 = 3 /\ brick[i] > 0 })

RECURSIVE SumOccupied(_, _)
SumOccupied(bricks, keys) ==
    IF keys = {} THEN 0
    ELSE LET k == CHOOSE k \in keys : TRUE
         IN BrickOccupied(bricks[k]) + SumOccupied(bricks, keys \ {k})

countVoxels(w) ==
    [w EXCEPT !.voxelCount = SumOccupied(w.bricks, DOMAIN w.bricks)]

\* Indices newly stored into coarse cells that were 0, in cell order.
RECURSIVE IssuedIn(_, _, _)
IssuedIn(w1, w2, i) ==
    IF i \notin DOMAIN w1.coarseGrid THEN << >>
    ELSE (IF w1.coarseGrid[i] = 0 /\ w2.coarseGrid[i] # 0
          THEN << w2.coarseGrid[i] >> ELSE << >>) \o IssuedIn(w1, w2, i + 1)

Range(s) == { s[i] : i \in DOMAIN s }

\* ------------------------------------------------------------------------
\* Atlas
\* ------------------------------------------------------------------------
\* One turn of the copy loops of buildAtlas for a brick sitting at atlas
\* cell (ax, ay, az): source slot n = lx + ly*B + lz*B^2.
CopySlot(w, atlas, brickData, ax, ay, az, n) ==
    LET B == w.brickSize
        atlasVoxelSize == w.atlasSize * w.brickSize
        lx == n % B
        ly == (n \div B) % B
        lz == n \div (B * B)
        srcIdx == (lx + ly * B + lz * B * B) * 4
        atlasX == ax * B + lx
        atlasY == ay * B + ly
        atlasZ == az * B + lz
        dstIdx == (atlasX + atlasY * atlasVoxelSize
                   + atlasZ * atlasVoxelSize * atlasVoxelSize) * 4
        a0 == StoreU8(atlas, dstIdx, brickData[srcIdx])
        a1 == StoreU8(a0, dstIdx + 1, brickData[srcIdx + 1])
        a2 == StoreU8(a1, dstIdx + 2, brickData[srcIdx + 2])
    IN StoreU8(a2, dstIdx + 3, brickData[srcIdx + 3])

\* The copy loops of buildAtlas for one brick, slots lo..hi in loop order:
\* the first half, then the second half from what the first half left.
RECURSIVE CopyBrick(_, _, _, _, _, _, _, _)
CopyBrick(w, atlas, brickData, ax, ay, az, lo, hi) ==
    IF Computed(atlas) /\ lo > hi THEN atlas
    ELSE IF lo = hi THEN CopySlot(w, atlas, brickData, ax, ay, az, lo)
    ELSE CopyBrick(w, CopyBrick(w, atlas, brickData, ax, ay, az, lo, (lo + hi) \div 2),
                   brickData, ax, ay, az, ((lo + hi) \div 2) + 1, hi)

\* Atlas cell of a brick index.
AtlasCell(w, brickIndex) ==
    LET idx == brickIndex - 1 IN
    << idx % w.atlasSize,
       (idx \div w.atlasSize) % w.atlasSize,
       idx \div (w.atlasSize * w.atlasSize) >>

\* The loop over the Map's entries, in insertion order (keys are inserted
\* in increasing order).
RECURSIVE CopyBricks(_, _, _)
CopyBricks(w, atlas, keys) ==
    IF Computed(atlas) /\ keys = {} THEN atlas
    ELSE LET k    == CHOOSE k \in keys : \A j \in keys : k <= j
             cell == AtlasCell(w, k)
         IN CopyBricks(w, CopyBrick(w, atlas, w.bricks[k], cell[1], cell[2], cell[3],
                                 0, w.brickSize * w.brickSize * w.brickSize - 1),
                       keys \ {k})

buildAtlas(w) ==
    LET atlasVoxelSize == w.atlasSize * w.brickSize
        fresh == NewUint8Array(atlasVoxelSize * atlasVoxelSize * atlasVoxelSize * 4)
    IN [w EXCEPT !.brickAtlasData = CopyBricks(w, fresh, DOMAIN w.bricks)]

\* Variant: the upload without the recount.
uploadWorldNoCount(w) == buildAtlas(w)

\* VoxelEngine.uploadWorld: builds the atlas, hands grid and atlas to the
\* GPU, recounts the voxels.
uploadWorld(w) == countVoxels(buildAtlas(w))

\* ------------------------------------------------------------------------
\* WebGL side: the textures of VoxelEngine and the fragment shader
\* ------------------------------------------------------------------------
\* What the shader reads: the coarse-grid texture, the atlas texture and the
\* size uniforms set by render().  brickSize stands for the shader constant
\* BRICK_SIZE, which equals the brick size of every world the engine makes.
Textures(w) ==
    [ coarseGridSize |-> w.coarseSize,
      atlasSize      |-> w.atlasSize,
      brickSize      |-> w.brickSize,
      coarseGrid     |-> w.coarseGrid,
      brickAtlas     |-> w.brickAtlasData ]

\* VoxelEngine._createTextures: the grid of the new world, a zeroed atlas.
createTextures(w) ==
    [ Textures(w) EXCEPT !.brickAtlas =
        NewUint8Array((w.atlasSize * w.brickSize) * (w.atlasSize * w.brickSize)
                      * (w.atlasSize * w.brickSize) * 4) ]

\* Shader floats.  A finite float is a whole number of 1/Unit; the rays
\* considered have origins on the half-integer lattice and direction
\* components that are whole numbers of magnitude at most 2, for which every
\* quotient below is exact.  Inf and -Inf are the infinities of a division
\* of a non-zero number by zero, NaN the result of 0/0.
Unit == 2 * 1000

Inf == Unit * 500000

NaN == Inf + Inf

\* min and max with a NaN operand are not defined by the language: a build
\* either returns the other operand ("ieee") or evaluates the comparison
\* of the definition, y < x ? y : x, which is false for NaN ("ternary").
Builds == {"ieee", "ternary"}

\* The 0.001 added to the entry distance.
Eps == Unit \div 1000

Sign(d) == IF d > 0 THEN 1 ELSE IF d < 0 THEN -1 ELSE 0

Abs(d) == IF d < 0 THEN 0 - d ELSE d

\* a < b on floats: false when an operand is NaN.
FLt(a, b) == a # NaN /\ b # NaN /\ a < b

FMin(build, x, y) ==
    IF build = "ieee" /\ x = NaN THEN y
    ELSE IF build = "ieee" /\ y = NaN THEN x
    ELSE IF FLt(y, x) THEN y ELSE x

FMax(build, x, y) ==
    IF build = "ieee" /\ x = NaN THEN y
    ELSE IF build = "ieee" /\ y = NaN THEN x
    ELSE IF FLt(x, y) THEN y ELSE x

\* a / d for a float a and a direction component d.
FDiv(a, d) ==
    IF d = 0 THEN (IF a > 0 THEN Inf ELSE IF a < 0 THEN 0 - Inf ELSE NaN)
    ELSE IF d > 0 THEN a \div d
    ELSE (0 - a) \div (0 - d)

FAdd(a, b) ==
    IF a = NaN \/ b = NaN THEN NaN
    ELSE IF Abs(a) = Inf THEN a
    ELSE IF Abs(b) = Inf THEN b
    ELSE a + b

\* The vec3 of a function on 1..3.
Vec3(f) == << f[1], f[2], f[3] >>

Clamp(v, lo, hi) == IF v < lo THEN lo ELSE IF v > hi THEN hi ELSE v

\* <<tNear, tFar>> of the slab test.
intersectAABB(build, rayOrigin, rayDir, boxMin, boxMax) ==
    LET tMin == Vec3([i \in 1..3 |-> FDiv(boxMin[i] - rayOrigin[i], rayDir[i])])
        tMax == Vec3([i \in 1..3 |-> FDiv(boxMax[i] - rayOrigin[i], rayDir[i])])
        t1   == Vec3([i \in 1..3 |-> FMin(build, tMin[i], tMax[i])])
        t2   == Vec3([i \in 1..3 |-> FMax(build, tMin[i], tMax[i])])
    IN << FMax(build, FMax(build, t1[1], t1[2]), t1[3]),
          FMin(build, FMin(build, t2[1], t2[2]), t2[3]) >>

\* tBox.x > tBox.y || tBox.y < 0.0
MissesBox(tBox) == FLt(tBox[2], tBox[1]) \/ FLt(tBox[2], 0)

getBrickIndex(g, coarsePos) ==
    IF \/ coarsePos[1] < 0 \/ coarsePos[2] < 0 \/ coarsePos[3] < 0
       \/ coarsePos[1] >= g.coarseGridSize
       \/ coarsePos[2] >= g.coarseGridSize
       \/ coarsePos[3] >= g.coarseGridSize
    THEN 0
    ELSE g.coarseGrid[ coarsePos[1] + coarsePos[2] * g.coarseGridSize
                       + coarsePos[3] * g.coarseGridSize * g.coarseGridSize ]

brickIndexToAtlasPos(g, brickIndex) ==
    LET idx == brickIndex - 1 IN
    << idx % g.atlasSize,
       (idx \div g.atlasSize) % g.atlasSize,
       idx \div (g.atlasSize * g.atlasSize) >>

\* texelFetch(u_brickAtlas, texelPos, 0), the four channels as their bytes
\* (the sampler hands out byte / 255).  A fetch outside the texture gives
\* zero.
texelFetchAtlas(g, texelPos) ==
    LET S == g.atlasSize * g.brickSize
        d == (texelPos[1] + texelPos[2] * S + texelPos[3] * S * S) * 4
    IN IF /\ texelPos[1] \in 0..(S - 1)
          /\ texelPos[2] \in 0..(S - 1)
          /\ texelPos[3] \in 0..(S - 1)
          /\ (d + 3) \in DOMAIN g.brickAtlas
       THEN [ r |-> g.brickAtlas[d], g |-> g.brickAtlas[d + 1],
              b |-> g.brickAtlas[d + 2], a |-> g.brickAtlas[d + 3] ]
       ELSE [ r |-> 0, g |-> 0, b |-> 0, a |-> 0 ]

getVoxelFromBrick(g, brickIndex, localPos) ==
    IF brickIndex = 0 THEN [ r |-> 0, g |-> 0, b |-> 0, a |-> 0 ]
    ELSE LET atlasPos == brickIndexToAtlasPos(g, brickIndex)
         IN texelFetchAtlas(g, << atlasPos[1] * g.brickSize + localPos[1],
                                  atlasPos[2] * g.brickSize + localPos[2],
                                  atlasPos[3] * g.brickSize + localPos[3] >>)

\* The axis selection with non-strict comparisons, which prefers x, then
\* y, then z among tied axes (a variant used to test the tie order).
ddaAxisEarliest(sideDist) ==
    IF ~FLt(sideDist[2], sideDist[1])
    THEN (IF ~FLt(sideDist[3], sideDist[1]) THEN 0 ELSE 2)
    ELSE (IF ~FLt(sideDist[3], sideDist[2]) THEN 1 ELSE 2)

\* The axis (0 = x, 1 = y, 2 = z) the nested comparisons of a DDA step
\* pick; the same text stands in traceBrick, traceRay and traceShadow.
ddaAxis(sideDist) ==
    IF FLt(sideDist[1], sideDist[2])
    THEN (IF FLt(sideDist[1], sideDist[3]) THEN 0 ELSE 2)
    ELSE (IF FLt(sideDist[2], sideDist[3]) THEN 1 ELSE 2)

\* abs(vec3(cell) / rayDir), cell = 1.0 in a brick and BRICK_SIZE in the
\* coarse grid.
deltaDistOf(cell, rayDir) ==
    Vec3([i \in 1..3 |-> IF rayDir[i] = 0 THEN Inf ELSE (cell * Unit) \div Abs(rayDir[i])])

\* The initial cross-distances with 0 instead of infinity on the axes
\* where the direction is zero (a variant used to test the degenerate
\* directions).
sideDistOfZero(cell, rayDir, cellPos, startPos) ==
    Vec3([i \in 1..3 |->
       IF rayDir[i] = 0 THEN 0
       ELSE (Sign(rayDir[i]) * (cellPos[i] * cell * Unit - startPos[i])
             + (IF rayDir[i] > 0 THEN cell * Unit ELSE 0)) \div Abs(rayDir[i])])

\* (sign(d) * (vec3(cellPos) - start) + sign(d) * 0.5 + 0.5) * deltaDist,
\* with start given by its position in voxel units (startPos[i] = start[i] *
\* cell) so that no quotient by the cell size is taken.
sideDistOf(cell, rayDir, cellPos, startPos) ==
    Vec3([i \in 1..3 |->
       IF rayDir[i] = 0 THEN Inf
       ELSE (Sign(rayDir[i]) * (cellPos[i] * cell * Unit - startPos[i])
             + (IF rayDir[i] > 0 THEN cell * Unit ELSE 0)) \div Abs(rayDir[i])])

\* The fields of a HitResult that a query without a hit leaves unset.
NoHit(steps) ==
    [ hit |-> FALSE, pos |-> <<0, 0, 0>>, normal |-> <<0, 0, 0>>,
      color |-> [r |-> 0, g |-> 0, b |-> 0, a |-> 0], distance |-> 0,
      steps |-> steps ]

\* The value of hit before any query.
NoQuery ==
    [ op |-> "none", build |-> "ieee", maxSteps |-> 0,
      origin |-> <<0, 0, 0>>, dir |-> <<0, 0, 0>>,
      res |-> NoHit(0), val |-> 0, log |-> << >> ]

\* Variant: the step on the diagonal, moving the next axis as well.
advanceDiagonal(pos, ax, step) ==
    [pos EXCEPT ![ax + 1] = @ + step[ax + 1],
                ![((ax + 1) % 3) + 1] = @ + step[((ax + 1) % 3) + 1]]

\* mapPos.x += step.x (or y, or z): the cell after a step on axis ax.
advance(pos, ax, step) == [pos EXCEPT ![ax + 1] = @ + step[ax + 1]]

\* Variant: a voxel counts as occupied when any of its bytes is set.
isOccupiedAnyByte(voxel) == voxel.r > 0 \/ voxel.g > 0 \/ voxel.b > 0 \/ voxel.a > 0

\* if (voxel.a > 0.0)
isOccupied(voxel) == voxel.a > 0

\* Variant: the brick loop bounded by BRICK_SIZE iterations.
brickCapReachedShort(b, i) == i >= b.g.brickSize

\* for (int i = 0; i < BRICK_SIZE * 3; i++)
brickCapReached(b, i) == i >= b.g.brickSize * 3

\* What traceBrick stores into the HitResult when the voxel at mapPos is
\* occupied: the distance to the far face of the voxel instead of the near
\* one (a variant used to test the distance statements).
brickHitFarFace(b, mapPos, side, voxel) ==
    LET worldPos == << b.brickMin[1] + mapPos[1], b.brickMin[2] + mapPos[2],
                       b.brickMin[3] + mapPos[3] >>
        s == b.step[side + 1]
    IN [ hit |-> TRUE,
         pos |-> worldPos,
         normal |-> Vec3([k \in 1..3 |-> IF k = side + 1 THEN 0 - s ELSE 0]),
         color |-> voxel,
         distance |-> FDiv(worldPos[side + 1] * Unit - b.rayOrigin[side + 1]
                           + ((Unit + s * Unit) \div 2),
                           b.rayDir[side + 1]),
         steps |-> 0 ]

\* What traceBrick stores into the HitResult when the voxel at mapPos is
\* occupied; side is the axis of the last DDA step (0 before any step).
brickHit(b, mapPos, side, voxel) ==
    LET worldPos == << b.brickMin[1] + mapPos[1], b.brickMin[2] + mapPos[2],
                       b.brickMin[3] + mapPos[3] >>
        s == b.step[side + 1]
    IN [ hit |-> TRUE,
         pos |-> worldPos,
         normal |-> Vec3([k \in 1..3 |-> IF k = side + 1 THEN 0 - s ELSE 0]),
         color |-> voxel,
         distance |-> FDiv(worldPos[side + 1] * Unit - b.rayOrigin[side + 1]
                           + ((Unit - s * Unit) \div 2),
                           b.rayDir[side + 1]),
         steps |-> 0 ]

\* The loop of traceBrick from iteration i on.  b carries what the loop
\* does not change; log gets one entry per voxel looked at: its local
\* position, the side and sideDist on arrival and the axis stepped next
\* (-1 when the loop returned there).
RECURSIVE brickLoop(_, _, _, _, _, _)
brickLoop(b, i, mapPos, sideDist, side, log) ==
    IF Computed(log) /\ brickCapReached(b, i)
    THEN [ res |-> NoHit(0), log |-> log ]
    ELSE
      LET voxel == getVoxelFromBrick(b.g, b.brickIndex, mapPos) IN
      IF isOccupied(voxel)
      THEN
        [ res |-> brickHit(b, mapPos, side, voxel),
          log |-> Append(log, [pos |-> mapPos, side |-> side,
                               sideDist |-> sideDist, axis |-> -1]) ]
      ELSE
        LET ax     == ddaAxis(sideDist)
            newSd  == [sideDist EXCEPT ![ax + 1] = FAdd(@, b.deltaDist[ax + 1])]
            newPos == advance(mapPos, ax, b.step)
            newLog == Append(log, [pos |-> mapPos, side |-> side,
                                   sideDist |-> sideDist, axis |-> ax])
        IN IF \/ newPos[1] < 0 \/ newPos[1] >= b.g.brickSize
              \/ newPos[2] < 0 \/ newPos[2] >= b.g.brickSize
              \/ newPos[3] < 0 \/ newPos[3] >= b.g.brickSize
           THEN [ res |-> NoHit(0), log |-> newLog ]
           ELSE brickLoop(b, i + 1, newPos, newSd, ax, newLog)

\* Variant: the start voxel is not clamped to the brick.
traceBrickNoClamp(build, g, brickIndex, rayOrigin, rayDir, coarsePos) ==
    LET B        == g.brickSize
        brickMin == << coarsePos[1] * B, coarsePos[2] * B, coarsePos[3] * B >>
        tBox     == intersectAABB(build, rayOrigin, rayDir,
                                  Vec3([i \in 1..3 |-> brickMin[i] * Unit]),
                                  Vec3([i \in 1..3 |-> (brickMin[i] + B) * Unit]))
    IN IF MissesBox(tBox) THEN [ res |-> NoHit(0), log |-> << >> ]
       ELSE
         LET tStart     == FAdd(FMax(build, 0, tBox[1]), Eps)
             localStart == Vec3([i \in 1..3 |->
                              rayOrigin[i] + rayDir[i] * tStart - brickMin[i] * Unit])
             mapPos     == Vec3([i \in 1..3 |-> localStart[i] \div Unit])
         IN brickLoop([ g |-> g, brickIndex |-> brickIndex, rayOrigin |-> rayOrigin,
                        rayDir |-> rayDir, brickMin |-> brickMin,
                        step |-> Vec3([i \in 1..3 |-> Sign(rayDir[i])]),
                        deltaDist |-> deltaDistOf(1, rayDir) ],
                      0, mapPos, sideDistOf(1, rayDir, mapPos, localStart), 0, << >>)

\* traceBrick: res.hit is the returned boolean, the other fields of res are
\* what it stores into the HitResult when it returns true.
traceBrick(build, g, brickIndex, rayOrigin, rayDir, coarsePos) ==
    LET B        == g.brickSize
        brickMin == << coarsePos[1] * B, coarsePos[2] * B, coarsePos[3] * B >>
        tBox     == intersectAABB(build, rayOrigin, rayDir,
                                  Vec3([i \in 1..3 |-> brickMin[i] * Unit]),
                                  Vec3([i \in 1..3 |-> (brickMin[i] + B) * Unit]))
    IN IF MissesBox(tBox) THEN [ res |-> NoHit(0), log |-> << >> ]
       ELSE
         LET tStart     == FAdd(FMax(build, 0, tBox[1]), Eps)
             localStart == Vec3([i \in 1..3 |->
                              rayOrigin[i] + rayDir[i] * tStart - brickMin[i] * Unit])
             mapPos     == Vec3([i \in 1..3 |-> Clamp(localStart[i] \div Unit, 0, B - 1)])
         IN brickLoop([ g |-> g, brickIndex |-> brickIndex, rayOrigin |-> rayOrigin,
                        rayDir |-> rayDir, brickMin |-> brickMin,
                        step |-> Vec3([i \in 1..3 |-> Sign(rayDir[i])]),
                        deltaDist |-> deltaDistOf(1, rayDir) ],
                      0, mapPos, sideDistOf(1, rayDir, mapPos, localStart), 0, << >>)

\* The iteration bound of traceRay's loop.
HardCap == 512

\* The loop test with the hard cap alone (a variant used to test the step
\* budget).
budgetExhaustedHardCapOnly(c, i) == i >= HardCap

\* for (int i = 0; i < 512; i++) { if (i >= u_maxSteps) break; ...
budgetExhausted(c, i) == i >= HardCap \/ i >= c.maxSteps

\* The brick sub-traversal of one coarse cell, invoked whatever the index
\* (a variant used to test the coarse skip).
subTraversalAlways(c, brickIndex, coarsePos) ==
    [ called |-> TRUE,
      t |-> traceBrick(c.build, c.g, brickIndex, c.rayOrigin, c.rayDir, coarsePos) ]

\* if (brickIndex > 0u) { if (traceBrick(...)) ... }: the brick
\* sub-traversal of one coarse cell, and whether traceBrick was invoked.
subTraversal(c, brickIndex, coarsePos) ==
    IF brickIndex > 0
    THEN [ called |-> TRUE,
           t |-> traceBrick(c.build, c.g, brickIndex, c.rayOrigin, c.rayDir, coarsePos) ]
    ELSE [ called |-> FALSE, t |-> [ res |-> NoHit(0), log |-> << >> ] ]

\* The loop of traceRay from iteration i on; steps is result.steps so far.
\* log gets one entry per coarse cell looked up: the cell, the index found,
\* sideDist on arrival, what traceBrick did there (no entries if it was not
\* called) and the axis stepped next (-1 when the loop returned there).
RECURSIVE coarseLoop(_, _, _, _, _, _)
coarseLoop(c, i, coarsePos, sideDist, steps, log) ==
    IF Computed(log) /\ budgetExhausted(c, i)
    THEN [ res |-> NoHit(steps), log |-> log ]
    ELSE
      LET brickIndex == getBrickIndex(c.g, coarsePos)
          looked == subTraversal(c, brickIndex, coarsePos)
          sub == looked.t
      IN IF sub.res.hit
         THEN [ res |-> [sub.res EXCEPT !.steps = i + 1],
                log |-> Append(log, [cell |-> coarsePos, index |-> brickIndex,
                                     called |-> looked.called, sideDist |-> sideDist,
                                     brick |-> sub.log, axis |-> -1]) ]
         ELSE
           LET ax     == ddaAxis(sideDist)
               newSd  == [sideDist EXCEPT ![ax + 1] = FAdd(@, c.deltaDist[ax + 1])]
               newPos == advance(coarsePos, ax, c.step)
               newLog == Append(log, [cell |-> coarsePos, index |-> brickIndex,
                                      called |-> looked.called, sideDist |-> sideDist,
                                      brick |-> sub.log, axis |-> ax])
           IN IF \/ newPos[1] < 0 \/ newPos[1] >= c.g.coarseGridSize
                 \/ newPos[2] < 0 \/ newPos[2] >= c.g.coarseGridSize
                 \/ newPos[3] < 0 \/ newPos[3] >= c.g.coarseGridSize
              THEN [ res |-> NoHit(i + 1), log |-> newLog ]
              ELSE coarseLoop(c, i + 1, newPos, newSd, i + 1, newLog)

\* traceRay(origin, direction) under the uniform u_maxSteps: the HitResult
\* in res, the coarse cells looked up in log.
traceRay(build, g, maxSteps, origin, direction) ==
    LET B         == g.brickSize
        worldSize == g.coarseGridSize * B
        tBox      == intersectAABB(build, origin, direction, <<0, 0, 0>>,
                                   << worldSize * Unit, worldSize * Unit, worldSize * Unit >>)
    IN IF MissesBox(tBox) THEN [ res |-> NoHit(0), log |-> << >> ]
       ELSE
         LET tStart    == FAdd(FMax(build, 0, tBox[1]), Eps)
             startPos  == Vec3([i \in 1..3 |-> origin[i] + direction[i] * tStart])
             coarsePos == Vec3([i \in 1..3 |->
                             Clamp(startPos[i] \div (B * Unit), 0, g.coarseGridSize - 1)])
         IN coarseLoop([ g |-> g, build |-> build, maxSteps |-> maxSteps,
                         rayOrigin |-> origin, rayDir |-> direction,
                         step |-> Vec3([i \in 1..3 |-> Sign(direction[i])]),
                         deltaDist |-> deltaDistOf(B, direction) ],
                       0, coarsePos, sideDistOf(B, direction, coarsePos, startPos),
                       0, << >>)

\* The iteration bound of traceShadow's loop and its two results, 0.3 and
\* 1.0.
ShadowSteps == 64

Occluded == (Unit * 3) \div 10

Unobstructed == Unit

\* The loop of traceShadow from iteration i on; log as in coarseLoop (the
\* cell whose bounds test returned has no entry).
RECURSIVE shadowLoop(_, _, _, _, _)
shadowLoop(c, i, coarsePos, sideDist, log) ==
    IF Computed(log) /\ i >= ShadowSteps
    THEN [ val |-> Unobstructed, log |-> log ]
    ELSE
      IF \/ coarsePos[1] < 0 \/ coarsePos[1] >= c.g.coarseGridSize
         \/ coarsePos[2] < 0 \/ coarsePos[2] >= c.g.coarseGridSize
         \/ coarsePos[3] < 0 \/ coarsePos[3] >= c.g.coarseGridSize
      THEN [ val |-> Unobstructed, log |-> log ]
      ELSE
        LET brickIndex == getBrickIndex(c.g, coarsePos)
            looked == subTraversal(c, brickIndex, coarsePos)
            sub == looked.t
        IN IF sub.res.hit
           THEN [ val |-> Occluded,
                  log |-> Append(log, [cell |-> coarsePos, index |-> brickIndex,
                                       called |-> looked.called, sideDist |-> sideDist,
                                       brick |-> sub.log, axis |-> -1]) ]
           ELSE
             LET ax == ddaAxis(sideDist) IN
             shadowLoop(c, i + 1,
                        advance(coarsePos, ax, c.step),
                        [sideDist EXCEPT ![ax + 1] = FAdd(@, c.deltaDist[ax + 1])],
                        Append(log, [cell |-> coarsePos, index |-> brickIndex,
                                     called |-> looked.called, sideDist |-> sideDist,
                                     brick |-> sub.log, axis |-> ax]))

\* The shadow walk with its result replaced by the unobstructed factor (a
\* variant used to test the occlusion statement).
traceShadowUnobstructed(build, g, origin, direction) ==
    LET B         == g.brickSize
        startPos  == Vec3([i \in 1..3 |-> origin[i] + direction[i] * (Unit \div 2)])
        coarsePos == Vec3([i \in 1..3 |-> startPos[i] \div (B * Unit)])
    IN [ val |-> Unobstructed,
         log |-> shadowLoop([ g |-> g, build |-> build, rayOrigin |-> origin,
                              rayDir |-> direction,
                              step |-> Vec3([i \in 1..3 |-> Sign(direction[i])]),
                              deltaDist |-> deltaDistOf(B, direction) ],
                            0, coarsePos,
                            sideDistOf(B, direction, coarsePos, startPos), << >>).log ]

\* traceShadow(origin, direction): the factor in val, the coarse cells
\* looked up in log.  The walk starts half a voxel along the ray, without
\* a box test or a clamp; traceBrick gets the unshifted origin.
traceShadow(build, g, origin, direction) ==
    LET B         == g.brickSize
        startPos  == Vec3([i \in 1..3 |-> origin[i] + direction[i] * (Unit \div 2)])
        coarsePos == Vec3([i \in 1..3 |-> startPos[i] \div (B * Unit)])
    IN shadowLoop([ g |-> g, build |-> build, rayOrigin |-> origin, rayDir |-> direction,
                    step |-> Vec3([i \in 1..3 |-> Sign(direction[i])]),
                    deltaDist |-> deltaDistOf(B, direction) ],
                  0, coarsePos, sideDistOf(B, direction, coarsePos, startPos), << >>)

\* ------------------------------------------------------------------------
\* Scene generator "demo" and ShowcaseApp._loadScene
\* ------------------------------------------------------------------------
Max(a, b) == IF a >= b THEN a ELSE b

\* floor(size * p / 100), the value of Math.floor(size * 0.p).
Pct(size, p) == (size * p) \div 100

\* A generator's writes are a sequence of <<x, y, z, r, g, b>>; alpha is the
\* default 255.
GroundWrites(size) ==
    [ k \in 1..(size * size) |->
        LET x == (k - 1) \div size
            z == (k - 1) % size
        IN IF (x + z) % 2 = 0 THEN <<x, 0, z, 58, 90, 64>>
                              ELSE <<x, 0, z, 88, 129, 87>> ]

\* The five columns: x, z, h as hundredths of size, and the colour.
Structures ==
    << <<30, 30, 40, <<233, 57, 70>> >>,
       <<60, 45, 55, <<69, 123, 157>> >>,
       <<45, 75, 35, <<244, 162, 97>> >>,
       <<75, 25, 50, <<42, 157, 143>> >>,
       <<25, 70, 30, <<233, 196, 106>> >> >>

StructureWrites(size, s) ==
    LET hw == Max(2, Pct(size, 4))
        n  == 2 * hw + 1
        h  == Pct(size, s[3])
    IN [ k \in 1..(h * n * n) |->
           LET y  == 1 + (k - 1) \div (n * n)
               dx == (((k - 1) \div n) % n) - hw
               dz == ((k - 1) % n) - hw
           IN << Pct(size, s[1]) + dx, y, Pct(size, s[2]) + dz,
                 s[4][1], s[4][2], s[4][3] >> ]

ScatterColors ==
    { <<155, 34, 38>>, <<174, 32, 18>>, <<187, 62, 3>>, <<202, 103, 2>>, <<238, 155, 0>> }

\* The values one scattered voxel can take (Math.random() is any number in
\* [0, 1)).
ScatterChoices(size) ==
    { <<x, y, z, c[1], c[2], c[3]>> :
        x \in 0..(size - 1), y \in 1..((size + 9) \div 10),
        z \in 0..(size - 1), c \in ScatterColors }

ScatterCount(size) == (size * size) \div 100

\* One setVoxel of a generator; acc = [w |-> world, written |-> records
\* accepted so far, issued |-> brick indices issued so far].
ApplyWrite(acc, wr) ==
    LET res == setVoxel(acc.w, wr[1], wr[2], wr[3], wr[4], wr[5], wr[6], 255)
    IN [ w |-> res.w,
         written |-> IF res.val
                     THEN MapSet(acc.written, <<wr[1], wr[2], wr[3]>>,
                                 Rec(<<wr[4], wr[5], wr[6], 255>>))
                     ELSE acc.written,
         issued |-> acc.issued \o IssuedIn(acc.w, res.w, 0) ]

\* The writes lo..hi of the sequence, in order: the first half, then the
\* second half from what the first half left.
RECURSIVE ApplyWrites(_, _, _, _)
ApplyWrites(acc, writes, lo, hi) ==
    IF Computed(acc) /\ lo > hi THEN acc
    ELSE IF lo = hi THEN ApplyWrite(acc, writes[lo])
    ELSE ApplyWrites(ApplyWrites(acc, writes, lo, (lo + hi) \div 2),
                     writes, ((lo + hi) \div 2) + 1, hi)

\* SceneGenerators.demo on world w, with the given scattered voxels.
demo(w, scatter) ==
    LET size == w.worldSize
        writes == GroundWrites(size)
                  \o StructureWrites(size, Structures[1])
                  \o StructureWrites(size, Structures[2])
                  \o StructureWrites(size, Structures[3])
                  \o StructureWrites(size, Structures[4])
                  \o StructureWrites(size, Structures[5])
                  \o scatter
    IN ApplyWrites([w |-> clear(w), written |-> EmptyMap, issued |-> << >>], writes, 1, Len(writes))

\* ------------------------------------------------------------------------
\* VoxelWorld: the dense world of the flat-grid engine
\* ------------------------------------------------------------------------
VoxelWorld(size) ==
    [ size       |-> size,
      data       |-> NewUint8Array(size * size * size * 4),
      voxelCount |-> 0 ]

VoxelWorld_clear(d) ==
    [d EXCEPT !.data = [i \in DOMAIN d.data |-> 0], !.voxelCount = 0]

OutOfVoxelWorld(d, x, y, z) ==
    \/ x < 0 \/ x >= d.size
    \/ y < 0 \/ y >= d.size
    \/ z < 0 \/ z >= d.size

VoxelWorldIndex(d, x, y, z) == (x + y * d.size + z * d.size * d.size) * 4

\* Variant: the alpha byte is not stored.
VoxelWorld_setVoxelNoAlpha(d, x, y, z, r, g, b, a) ==
    IF OutOfVoxelWorld(d, x, y, z) THEN [w |-> d, val |-> FALSE]
    ELSE [ w |-> [d EXCEPT !.data = storeRecord(@, VoxelWorldIndex(d, x, y, z), r, g, b,
                                                d.data[VoxelWorldIndex(d, x, y, z) + 3])],
           val |-> TRUE ]

\* Returns [w |-> dense world after the call, val |-> returned boolean].
VoxelWorld_setVoxel(d, x, y, z, r, g, b, a) ==
    IF OutOfVoxelWorld(d, x, y, z) THEN [w |-> d, val |-> FALSE]
    ELSE [ w |-> [d EXCEPT !.data = storeRecord(@, VoxelWorldIndex(d, x, y, z), r, g, b, a)],
           val |-> TRUE ]

\* The voxel record or Null.
VoxelWorld_getVoxel(d, x, y, z) ==
    IF OutOfVoxelWorld(d, x, y, z) THEN Null
    ELSE LET idx == VoxelWorldIndex(d, x, y, z)
         IN [ r |-> d.data[idx], g |-> d.data[idx + 1],
              b |-> d.data[idx + 2], a |-> d.data[idx + 3] ]

VoxelWorld_countVoxels(d) ==
    [d EXCEPT !.voxelCount = Cardinality({ i \in DOMAIN d.data : i % 4 = 3 /\ d.data[i] > 0 })]

\* ------------------------------------------------------------------------
\* The flat-grid shader: one DDA over the voxels of a VoxelWorld
\* ------------------------------------------------------------------------
\* getVoxel(pos) of the flat-grid shader on the texture uploaded from
\* d.data, under u_worldSize = d.size.
flat_getVoxel(d, pos) ==
    IF OutOfVoxelWorld(d, pos[1], pos[2], pos[3])
    THEN [r |-> 0, g |-> 0, b |-> 0, a |-> 0]
    ELSE LET idx == VoxelWorldIndex(d, pos[1], pos[2], pos[3])
         IN [ r |-> d.data[idx], g |-> d.data[idx + 1],
              b |-> d.data[idx + 2], a |-> d.data[idx + 3] ]

\* The iteration bound of the flat traceRay's loop.
FlatHardCap == 512

\* What the flat traceRay stores into the HitResult at an occupied voxel.
flatHit(f, i, mapPos, side, voxel) ==
    LET s == f.step[side + 1]
    IN [ hit |-> TRUE,
         pos |-> mapPos,
         normal |-> Vec3([k \in 1..3 |-> IF k = side + 1 THEN 0 - s ELSE 0]),
         color |-> voxel,
         distance |-> FDiv(mapPos[side + 1] * Unit - f.rayOrigin[side + 1]
                           + ((Unit - s * Unit) \div 2),
                           f.rayDir[side + 1]),
         steps |-> i + 1 ]

\* The loop of the flat traceRay from iteration i on.
RECURSIVE flatLoop(_, _, _, _, _)
flatLoop(f, i, mapPos, sideDist, side) ==
    IF Computed(mapPos) /\ Computed(sideDist) /\ (i >= FlatHardCap \/ i >= f.maxSteps)
    THEN NoHit(i)
    ELSE
      LET voxel == flat_getVoxel(f.d, mapPos) IN
      IF voxel.a > 0 THEN flatHit(f, i, mapPos, side, voxel)
      ELSE
        LET ax     == ddaAxis(sideDist)
            newSd  == [sideDist EXCEPT ![ax + 1] = FAdd(@, f.deltaDist[ax + 1])]
            newPos == advance(mapPos, ax, f.step)
        IN IF OutOfVoxelWorld(f.d, newPos[1], newPos[2], newPos[3])
           THEN NoHit(i + 1)
           ELSE flatLoop(f, i + 1, newPos, newSd, ax)

\* traceRay(origin, direction) of the flat-grid shader under u_maxSteps:
\* the HitResult.
flat_traceRay(build, d, maxSteps, origin, direction) ==
    LET tBox == intersectAABB(build, origin, direction, <<0, 0, 0>>,
                              << d.size * Unit, d.size * Unit, d.size * Unit >>)
    IN IF MissesBox(tBox) THEN NoHit(0)
       ELSE
         LET tStart   == FAdd(FMax(build, 0, tBox[1]), Eps)
             startPos == Vec3([i \in 1..3 |-> origin[i] + direction[i] * tStart])
             mapPos   == Vec3([i \in 1..3 |-> Clamp(startPos[i] \div Unit, 0, d.size - 1)])
         IN flatLoop([ d |-> d, maxSteps |-> maxSteps,
                       rayOrigin |-> origin, rayDir |-> direction,
                       step |-> Vec3([i \in 1..3 |-> Sign(direction[i])]),
                       deltaDist |-> deltaDistOf(1, direction) ],
                     0, mapPos, sideDistOf(1, direction, mapPos, startPos), 0)

\* ------------------------------------------------------------------------
\* Inputs
\* ------------------------------------------------------------------------
\* Sample coordinates: two slots of one brick, a slot of another brick, the
\* far corner, and one coordinate outside the world below and above on
\* each axis.
TestCoords(w) ==
    LET B == w.brickSize
        W == w.worldSize
    IN { <<0, 0, 0>>, <<0, 1, 1>>, <<1, 0, B>>,
         <<W - 1, W - 1, W - 1>>,
         <<-1, 0, 0>>, <<0, -1, 0>>, <<0, 0, -1>>,
         <<W, 0, 0>>, <<0, W, 0>>, <<0, 0, W>> }

\* Sample byte records <<r, g, b, a>>: two occupied ones and an empty one
\* that still carries a colour.
TestValues == { <<255, 0, 0, 255>>, <<1, 2, 3, 4>>, <<7, 8, 9, 0>> }

\* Every integer coordinate of the world.
AllCoords(w) == { <<x, y, z>> : x \in 0..(w.worldSize - 1),
                                y \in 0..(w.worldSize - 1),
                                z \in 0..(w.worldSize - 1) }

\* ------------------------------------------------------------------------
\* Operations
\* ------------------------------------------------------------------------
\* The value of app where no application runs.
NoApp ==
    [ coarseSize |-> 0, currentScene |-> "none", frames |-> 0,
      drawn |-> << >>, shownVoxels |-> 0, shownBricks |-> 0 ]

Returned(op, ok, voxel, count) ==
    [op |-> op, ok |-> ok, voxel |-> voxel, count |-> count]

Init ==
    /\ \E cs \in CoarseSizes : world = BrickMapWorld(cs, brickSize)
    /\ ret = Returned("new", TRUE, Null, 0)
    /\ ops = 0
    /\ written = EmptyMap
    /\ issued = << >>
    /\ issuedBefore = {}
    /\ gpu = createTextures(world)
    /\ hit = NoQuery
    /\ app = NoApp
    /\ dense = VoxelWorld(world.worldSize)
    /\ denseRet = Returned("new", TRUE, Null, 0)

SetVoxelCall(c, v) ==
    /\ ops < MaxOps
    /\ LET res == setVoxel(world, c[1], c[2], c[3], v[1], v[2], v[3], v[4]) IN
       /\ world' = res.w
       /\ ret' = Returned("setVoxel", res.val, Null, 0)
       /\ written' = IF res.val THEN MapSet(written, c, Rec(v)) ELSE written
       /\ issued' = issued \o IssuedIn(world, res.w, 0)
    /\ LET res == VoxelWorld_setVoxel(dense, c[1], c[2], c[3], v[1], v[2], v[3], v[4]) IN
       /\ dense' = res.w
       /\ denseRet' = Returned("setVoxel", res.val, Null, 0)
    /\ ops' = ops + 1
    /\ UNCHANGED <<issuedBefore, gpu, hit, app>>

GetVoxelCall(c) ==
    /\ LET res == getVoxel(world, c[1], c[2], c[3]) IN
       /\ world' = res.w
       /\ ret' = Returned("getVoxel", TRUE, res.val, 0)
    /\ denseRet' = Returned("getVoxel", TRUE, VoxelWorld_getVoxel(dense, c[1], c[2], c[3]), 0)
    /\ UNCHANGED <<ops, written, issued, issuedBefore, gpu, hit, app, dense>>

ClearCall ==
    /\ world' = clear(world)
    /\ ret' = Returned("clear", TRUE, Null, 0)
    /\ written' = EmptyMap
    /\ issued' = << >>
    /\ issuedBefore' = issuedBefore \cup Range(issued)
    /\ dense' = VoxelWorld_clear(dense)
    /\ denseRet' = Returned("clear", TRUE, Null, 0)
    /\ UNCHANGED <<ops, gpu, hit, app>>

CountVoxelsCall ==
    /\ world' = countVoxels(world)
    /\ ret' = Returned("countVoxels", TRUE, Null, world'.voxelCount)
    /\ dense' = VoxelWorld_countVoxels(dense)
    /\ denseRet' = Returned("countVoxels", TRUE, Null, dense'.voxelCount)
    /\ UNCHANGED <<ops, written, issued, issuedBefore, gpu, hit, app>>

BuildAtlasCall ==
    /\ world' = buildAtlas(world)
    /\ ret' = Returned("buildAtlas", TRUE, Null, 0)
    /\ UNCHANGED <<ops, written, issued, issuedBefore, gpu, hit, app, dense, denseRet>>

\* ShowcaseApp._loadScene("demo"): the generator, then uploadWorld.
LoadSceneCall ==
    /\ ops < MaxOps
    /\ \E scatter \in [1..ScatterCount(world.worldSize) -> ScatterChoices(world.worldSize)] :
         LET gen == demo(world, scatter) IN
         /\ world' = uploadWorld(gen.w)
         /\ written' = gen.written
         /\ issued' = gen.issued
    /\ gpu' = Textures(world')
    /\ ret' = Returned("loadScene", TRUE, Null, 0)
    /\ issuedBefore' = issuedBefore \cup Range(issued)
    /\ ops' = ops + 1
    /\ UNCHANGED <<hit, app, dense, denseRet>>

Next ==
    \/ \E c \in TestCoords(world), v \in TestValues : SetVoxelCall(c, v)
    \/ \E c \in TestCoords(world) : GetVoxelCall(c)
    \/ ClearCall
    \/ CountVoxelsCall

Spec == Init /\ [][Next]_vars

\* The world together with its atlas projection and the scene loader.
AtlasCoords(w) ==
    { <<1, 0, 0>>, <<0, 1, w.brickSize>>, <<w.worldSize - 1, w.worldSize - 1, w.worldSize - 1>> }

AtlasValues == { <<255, 0, 0, 255>>, <<7, 8, 9, 0>> }

NextAtlas ==
    \/ \E c \in AtlasCoords(world), v \in AtlasValues : SetVoxelCall(c, v)
    \/ ClearCall
    \/ BuildAtlasCall
    \/ LoadSceneCall

SpecAtlas == Init /\ [][NextAtlas]_vars

\* ------------------------------------------------------------------------
\* Ray queries against an uploaded scene
\* ------------------------------------------------------------------------
\* Scenes of at most MaxSceneVoxels voxels in worlds of coarse size up to
\* MaxTraceCoarse.
MaxSceneVoxels == 2

MaxTraceCoarse == 2

\* const int BRICK_SIZE = 8, the brick size of the worlds the engine makes.
BRICK_SIZE == 8

\* u_maxSteps as the engine sets it.
DefaultMaxSteps == 256

\* <<coarseSize, brickSize>> of the worlds queried: the scaled ones and the
\* single 8^3 brick.
TraceDims == { <<cs, brickSize>> : cs \in 1..MaxTraceCoarse } \cup { <<1, BRICK_SIZE>> }

\* Voxels a scene is made of, as generator writes <<x, y, z, r, g, b>>: in
\* a scaled world the colour tells the coordinate.
SceneVoxels(dims) ==
    IF dims[2] = BRICK_SIZE
    THEN { <<4, 4, 4, 255, 0, 0>>, <<4, 4, 0, 0, 255, 0>> }
    ELSE LET W == dims[1] * dims[2] IN
         { <<c[1], c[2], c[3], 10 + c[1], 20 + c[2], 30 + c[3]>> :
             c \in { <<0, 0, 0>>, <<1, 1, 1>>, <<0, 1, 0>>, <<1, 0, 1>>,
                     <<W - 1, W - 1, W - 1>>, <<W - 2, W - 1, 1>> } }

\* The writes of a set of voxels, in increasing order of x + W*y + W^2*z.
RECURSIVE WritesOf(_, _)
WritesOf(W, vs) ==
    IF vs = {} THEN << >>
    ELSE LET v == CHOOSE v \in vs :
                    \A u \in vs : v[1] + W * v[2] + W * W * v[3]
                                    <= u[1] + W * u[2] + W * W * u[3]
         IN << v >> \o WritesOf(W, vs \ {v})

Scenes(dims) ==
    { vs \in SUBSET SceneVoxels(dims) : Cardinality(vs) <= MaxSceneVoxels }

\* The voxel a scene may remove after its writes, and the record the
\* removal stores (a = 0, with a colour left behind).
ErasedVoxel(dims) == IF dims[2] = BRICK_SIZE THEN <<4, 4, 4>> ELSE <<0, 0, 0>>

ErasedRecord == <<7, 8, 9, 0>>

\* setVoxel(x, y, z, 7, 8, 9, 0) after the generator's writes.
EraseWrite(acc, c) ==
    LET res == setVoxel(acc.w, c[1], c[2], c[3], ErasedRecord[1], ErasedRecord[2],
                        ErasedRecord[3], ErasedRecord[4])
    IN [ w |-> res.w,
         written |-> IF res.val THEN MapSet(acc.written, c, Rec(ErasedRecord))
                     ELSE acc.written,
         issued |-> acc.issued \o IssuedIn(acc.w, res.w, 0) ]

\* A generator run on a new world, an optional removal, then uploadWorld,
\* as _loadScene does: [w, written, issued].
LoadedScene(dims, vs, erase) ==
    LET gen == ApplyWrites([ w |-> clear(BrickMapWorld(dims[1], dims[2])),
                             written |-> EmptyMap, issued |-> << >> ],
                           WritesOf(dims[1] * dims[2], vs), 1, Cardinality(vs))
        fin == IF erase THEN EraseWrite(gen, ErasedVoxel(dims)) ELSE gen
    IN [ w |-> uploadWorld(fin.w), written |-> fin.written, issued |-> fin.issued ]

\* The writes k.. of the sequence made on a dense world.
RECURSIVE DenseWrites(_, _, _)
DenseWrites(d, writes, k) ==
    IF Computed(d) /\ k > Len(writes) THEN d
    ELSE DenseWrites(VoxelWorld_setVoxel(d, writes[k][1], writes[k][2], writes[k][3],
                                         writes[k][4], writes[k][5], writes[k][6], 255).w,
                     writes, k + 1)

\* The same generator run and removal on a new VoxelWorld of the same
\* size, then its recount.
DenseScene(dims, vs, erase) ==
    LET gen == DenseWrites(VoxelWorld_clear(VoxelWorld(dims[1] * dims[2])),
                           WritesOf(dims[1] * dims[2], vs), 1)
        e   == ErasedVoxel(dims)
        fin == IF erase
               THEN VoxelWorld_setVoxel(gen, e[1], e[2], e[3], ErasedRecord[1],
                                        ErasedRecord[2], ErasedRecord[3], ErasedRecord[4]).w
               ELSE gen
    IN VoxelWorld_countVoxels(fin)

\* Ray origins, in 1/Unit: per axis a point before the box, two inside and
\* one behind it, all off the voxel planes; and origins on voxel planes
\* (whole coordinates).
HalfPoints(W) == { 0 - 3 * (Unit \div 2), Unit \div 2, W * Unit - (Unit \div 2),
                   W * Unit + 3 * (Unit \div 2) }

Origins(W) ==
    { <<x, y, z>> : x \in HalfPoints(W), y \in HalfPoints(W), z \in HalfPoints(W) }
    \cup { <<0, Unit \div 2, 0 - 3 * Unit>>, <<Unit, Unit, 0 - 3 * Unit>>,
           <<0, Unit \div 2, W * Unit + Unit>>, <<W * Unit, Unit \div 2, 0 - Unit>>,
           <<Unit, Unit, Unit>> }

\* Ray directions: every non-zero vector of components -1, 0, 1 and some
\* of slope 2.
Directions ==
    ({ <<x, y, z>> : x \in -1..1, y \in -1..1, z \in -1..1 } \ { <<0, 0, 0>> })
    \cup { <<1, 2, 0>>, <<2, 1, 0>>, <<0, -1, 2>>, <<-2, 1, 1>> }

\* The rays sent into the 8^3 world.
BigOrigins == { <<4 * Unit, 4 * Unit, 0 - 10 * Unit>>, <<4 * Unit, 4 * Unit, 18 * Unit>>,
                <<9 * (Unit \div 2), 9 * (Unit \div 2), 0 - 3 * (Unit \div 2)>>,
                <<0 - (Unit \div 2), 0 - (Unit \div 2), 0 - (Unit \div 2)>> }

BigDirections == { <<0, 0, 1>>, <<0, 0, -1>>, <<1, 0, 0>>, <<1, 1, 1>> }

\* The builds that can differ on a ray: those with a 0/0 in a slab test
\* need a zero direction component whose origin coordinate is whole.
BuildsFor(origin, dir) ==
    IF \E i \in 1..3 : dir[i] = 0 /\ origin[i] % Unit = 0 THEN Builds ELSE {"ieee"}

\* The step budgets tried: the engine's, and small and large ones on the
\* rays that start inside the box corner.
MaxStepsFor(origin) ==
    IF origin = <<Unit \div 2, Unit \div 2, Unit \div 2>>
    THEN {0, 1, 2, DefaultMaxSteps, HardCap + 88}
    ELSE {DefaultMaxSteps}

\* A scene loaded into a new world and uploaded.
InitTrace ==
    /\ \E dims \in TraceDims : \E vs \in Scenes(dims) : \E erase \in BOOLEAN :
         LET s == LoadedScene(dims, vs, erase) IN
         /\ world = s.w
         /\ written = s.written
         /\ issued = s.issued
         /\ dense = DenseScene(dims, vs, erase)
    /\ gpu = Textures(world)
    /\ ret = Returned("loadScene", TRUE, Null, 0)
    /\ ops = 1
    /\ issuedBefore = {}
    /\ hit = NoQuery
    /\ app = NoApp
    /\ denseRet = Returned("new", TRUE, Null, 0)

\* One invocation of traceRay by the shader.  Invocations are independent
\* of each other (they only read gpu): a behaviour follows a single one.
TraceRayCall(build, maxSteps, origin, dir) ==
    /\ hit.op = "none"
    /\ LET t == traceRay(build, gpu, maxSteps, origin, dir) IN
       hit' = [ op |-> "traceRay", build |-> build, maxSteps |-> maxSteps,
                origin |-> origin, dir |-> dir,
                res |-> t.res, val |-> 0, log |-> t.log ]
    /\ UNCHANGED <<world, ret, ops, written, issued, issuedBefore, gpu, app, dense, denseRet>>

\* One invocation of traceShadow by the shader.
TraceShadowCall(build, origin, dir) ==
    /\ hit.op = "none"
    /\ LET t == traceShadow(build, gpu, origin, dir) IN
       hit' = [ op |-> "traceShadow", build |-> build, maxSteps |-> 0,
                origin |-> origin, dir |-> dir,
                res |-> NoHit(0), val |-> t.val, log |-> t.log ]
    /\ UNCHANGED <<world, ret, ops, written, issued, issuedBefore, gpu, app, dense, denseRet>>

RayOrigins(g) ==
    IF g.brickSize = BRICK_SIZE THEN BigOrigins ELSE Origins(g.coarseGridSize * g.brickSize)

RayDirections(g) == IF g.brickSize = BRICK_SIZE THEN BigDirections ELSE Directions

NextTrace ==
    /\ hit.op = "none"
    /\ \/ \E origin \in RayOrigins(gpu), dir \in RayDirections(gpu) :
            \E build \in BuildsFor(origin, dir), maxSteps \in MaxStepsFor(origin) :
              TraceRayCall(build, maxSteps, origin, dir)
       \/ \E origin \in RayOrigins(gpu), dir \in RayDirections(gpu) :
            \E build \in BuildsFor(origin, dir) :
              TraceShadowCall(build, origin, dir)

SpecTrace == InitTrace /\ [][NextTrace]_vars

\* ------------------------------------------------------------------------
\* Vocabulary of the properties
\* ------------------------------------------------------------------------
\* An in-bounds integer coordinate.
InWorld(w, c) ==
    /\ c[1] \in 0..(w.coarseSize * w.brickSize - 1)
    /\ c[2] \in 0..(w.coarseSize * w.brickSize - 1)
    /\ c[3] \in 0..(w.coarseSize * w.brickSize - 1)

\* What getVoxel returns at c.
Voxel(w, c) == getVoxel(w, c[1], c[2], c[3]).val

\* The B^3 region of a coordinate, and the value of its coarse cell.
Region(w, c) == << c[1] \div w.brickSize, c[2] \div w.brickSize, c[3] \div w.brickSize >>

CoarseCell(w, c) ==
    w.coarseGrid[ Region(w, c)[1] + Region(w, c)[2] * w.coarseSize
                  + Region(w, c)[3] * w.coarseSize * w.coarseSize ]

NonZeroCells(w) == { i \in DOMAIN w.coarseGrid : w.coarseGrid[i] # 0 }

\* Number of in-bounds coordinates that read as occupied.
OccupiedCount(w) ==
    Cardinality({ c \in AllCoords(w) : Voxel(w, c) # Null /\ Voxel(w, c).a > 0 })

\* ------------------------------------------------------------------------
\* Geometry of a ray, independent of the traversal
\* ------------------------------------------------------------------------
\* The ray is origin + t * dir, t >= 0.  Times are kept doubled (T = 2t, in
\* 1/Unit) so that the crossing times of rays of slope 1 and 2 are whole.
\* A voxel v is the half-open cube [v, v+1)^3, as the world is [0, W)^3 and
\* the voxel of a point is its floor.
PlaneT(origin, dir, i, p) ==
    Sign(dir[i]) * (2 \div Abs(dir[i])) * (p * Unit - origin[i])

\* Per axis, the times at which the ray is inside [lo, hi) on that axis:
\* from `from` to `to`, each end included or not; empty when e is set.
AxisSpan(origin, dir, i, lo, hi) ==
    IF dir[i] > 0
    THEN [ e |-> FALSE, from |-> PlaneT(origin, dir, i, lo), fromIn |-> TRUE,
           to |-> PlaneT(origin, dir, i, hi), toIn |-> FALSE ]
    ELSE IF dir[i] < 0
    THEN [ e |-> FALSE, from |-> PlaneT(origin, dir, i, hi), fromIn |-> FALSE,
           to |-> PlaneT(origin, dir, i, lo), toIn |-> TRUE ]
    ELSE [ e |-> ~(lo * Unit <= origin[i] /\ origin[i] < hi * Unit),
           from |-> 0 - Inf, fromIn |-> TRUE, to |-> Inf, toIn |-> TRUE ]

\* The times T >= 0 at which the ray is inside the box [lo, hi) (lo and hi
\* are corner coordinates in voxels).
BoxSpan(origin, dir, lo, hi) ==
    LET s == << AxisSpan(origin, dir, 1, lo[1], hi[1]),
                AxisSpan(origin, dir, 2, lo[2], hi[2]),
                AxisSpan(origin, dir, 3, lo[3], hi[3]),
                [ e |-> FALSE, from |-> 0, fromIn |-> TRUE, to |-> Inf, toIn |-> TRUE ] >>
        from == CHOOSE x \in { s[k].from : k \in 1..4 } : \A k \in 1..4 : s[k].from <= x
        to   == CHOOSE x \in { s[k].to : k \in 1..4 } : \A k \in 1..4 : x <= s[k].to
    IN [ e |-> \E k \in 1..4 : s[k].e,
         from |-> from, fromIn |-> \A k \in 1..4 : s[k].from = from => s[k].fromIn,
         to |-> to, toIn |-> \A k \in 1..4 : s[k].to = to => s[k].toIn ]

VoxelSpan(origin, dir, v) ==
    BoxSpan(origin, dir, v, << v[1] + 1, v[2] + 1, v[3] + 1 >>)

\* The ray has a point in the half-open voxel v.
PassesThrough(origin, dir, v) ==
    LET s == VoxelSpan(origin, dir, v)
    IN ~s.e /\ (s.from < s.to \/ (s.from = s.to /\ s.fromIn /\ s.toIn))

\* The ray has a point in the closed cube [v, v+1]^3.
Touches(origin, dir, v) ==
    LET s == VoxelSpan(origin, dir, v)
        onAxis(i) == dir[i] # 0 \/ (v[i] * Unit <= origin[i] /\ origin[i] <= (v[i] + 1) * Unit)
    IN onAxis(1) /\ onAxis(2) /\ onAxis(3) /\ s.from <= s.to

\* The ray is inside the half-open voxel v over a stretch of positive
\* length.
Crosses(origin, dir, v) ==
    LET s == VoxelSpan(origin, dir, v) IN ~s.e /\ s.from < s.to

\* v comes before u along the ray (both passed through).
EntersBefore(origin, dir, v, u) ==
    LET sv == VoxelSpan(origin, dir, v)
        su == VoxelSpan(origin, dir, u)
    IN sv.from < su.from \/ (sv.from = su.from /\ sv.fromIn /\ ~su.fromIn)

\* The occupied voxels of the uploaded Brick Map.
Occupied(w) == { c \in AllCoords(w) : Voxel(w, c).a > 0 }

\* The ray has a point in the closed world box [0, W]^3.
MeetsWorldBox(origin, dir, W) ==
    LET s == BoxSpan(origin, dir, <<0, 0, 0>>, <<W, W, W>>)
        onAxis(i) == dir[i] # 0 \/ (0 <= origin[i] /\ origin[i] <= W * Unit)
    IN onAxis(1) /\ onAxis(2) /\ onAxis(3) /\ s.from <= s.to

\* ------------------------------------------------------------------------
\* Properties
\* ------------------------------------------------------------------------

\* C1: a setVoxel of an in-bounds coordinate with a record of alpha > 0 is
\* read back by getVoxel at that coordinate exactly as written.
C1_RoundTrip ==
    [][ \A c \in TestCoords(world), v \in TestValues :
          (ret'.op = "setVoxel" /\ SetVoxelCall(c, v) /\ InWorld(world, c) /\ v[4] > 0)
            => Voxel(world', c) = Rec(v) ]_vars

C1_Witness ==
    /\ ret.op = "setVoxel" /\ ret.ok = TRUE
    /\ \E c \in DOMAIN written : written[c] = Rec(<<1, 2, 3, 4>>)
    /\ \E c \in DOMAIN written : written[c] = Rec(<<255, 0, 0, 255>>)

\* C2: with a coordinate outside [0, worldSize) on some axis, setVoxel
\* returns false and leaves the whole world as it was, and getVoxel returns
\* null.
C2_OutOfBounds ==
    [][ \A c \in TestCoords(world) :
          ~InWorld(world, c) =>
            /\ \A v \in TestValues :
                 (ret'.op = "setVoxel" /\ SetVoxelCall(c, v))
                   => (ret'.ok = FALSE /\ world' = world)
            /\ (ret'.op = "getVoxel" /\ GetVoxelCall(c))
                 => (ret'.voxel = Null /\ world' = world) ]_vars

C2_Witness ==
    /\ ret.op = "setVoxel" /\ ret.ok = FALSE
    /\ world.brickCount >= 1

\* C3: a setVoxel call adds at most one brick, and writes that all fall in
\* one B^3 region of a cleared world leave exactly one brick.
SameRegion(w, cs) == \A c1 \in cs, c2 \in cs : Region(w, c1) = Region(w, c2)

C3_BrickLaziness ==
    /\ [][ ret'.op = "setVoxel" =>
             /\ world'.brickCount <= world.brickCount + 1
             /\ Cardinality(DOMAIN world'.bricks) <= Cardinality(DOMAIN world.bricks) + 1 ]_vars
    /\ []( (DOMAIN written # {} /\ SameRegion(world, DOMAIN written)) =>
             /\ world.brickCount = 1
             /\ Cardinality(DOMAIN world.bricks) = 1
             /\ Cardinality(NonZeroCells(world)) = 1 )

C3_Witness ==
    /\ Cardinality(DOMAIN written) >= 2
    /\ SameRegion(world, DOMAIN written)
    /\ world.brickCount = 1

\* C4: getVoxel changes nothing of the world, whatever the coordinate, and
\* for an in-bounds coordinate whose coarse cell is 0 it returns a record
\* with a = 0.
C4_ReadOnly ==
    [][ \A c \in TestCoords(world) :
          (ret'.op = "getVoxel" /\ GetVoxelCall(c)) =>
            /\ world' = world
            /\ (InWorld(world, c) /\ CoarseCell(world, c) = 0)
                 => (ret'.voxel # Null /\ ret'.voxel.a = 0) ]_vars

\* The read that returned an empty record was of an unallocated cell: every
\* sample coordinate in an allocated cell is occupied.
C4_Witness ==
    /\ ret.op = "getVoxel" /\ ret.voxel = Rec(<<0, 0, 0, 0>>)
    /\ world.brickCount >= 1
    /\ \A c \in TestCoords(world) :
         InWorld(world, c) => (CoarseCell(world, c) = 0 \/ Voxel(world, c).a > 0)

\* C5: every in-bounds coordinate not written since the most recent clear
\* (or construction) reads with a = 0, also inside an allocated brick.
C5_Occupancy ==
    \A c \in AllCoords(world) \ DOMAIN written :
       Voxel(world, c) # Null /\ Voxel(world, c).a = 0

C5_Witness ==
    /\ issuedBefore # {}
    /\ \E c \in AllCoords(world) \ DOMAIN written : CoarseCell(world, c) # 0

\* C6: after clear every coarse cell is 0, the brick store is empty,
\* nextBrickIndex is 1 and both counters are 0; a second clear changes
\* nothing.
C6_Clear ==
    ret.op = "clear" =>
      /\ \A i \in DOMAIN world.coarseGrid : world.coarseGrid[i] = 0
      /\ DOMAIN world.bricks = {}
      /\ world.nextBrickIndex = 1
      /\ world.brickCount = 0
      /\ world.voxelCount = 0
      /\ clear(world) = world

C6_Witness ==
    /\ ret.op = "clear"
    /\ Cardinality(issuedBefore) >= 2

\* C7: countVoxels returns, and stores in voxelCount, the number of
\* in-bounds coordinates whose record has a > 0.
C7_CountVoxels ==
    ret.op = "countVoxels" =>
      /\ ret.count = OccupiedCount(world)
      /\ world.voxelCount = OccupiedCount(world)

C7_Witness ==
    /\ ret.op = "countVoxels"
    /\ ret.count >= 2
    /\ \E c \in DOMAIN written : written[c].a = 0

\* C8: after buildAtlas, every occupied voxel is found in the atlas at the
\* atlas-voxel coordinate of its brick index and local coordinate, for
\* every coarse size.
AtlasRecord(w, X, Y, Z) ==
    LET S == w.atlasSize * w.brickSize
        d == (X + Y * S + Z * S * S) * 4
    IN IF X \in 0..(S - 1) /\ Y \in 0..(S - 1) /\ Z \in 0..(S - 1)
          /\ (d + 3) \in DOMAIN w.brickAtlasData
       THEN [ r |-> w.brickAtlasData[d], g |-> w.brickAtlasData[d + 1],
              b |-> w.brickAtlasData[d + 2], a |-> w.brickAtlasData[d + 3] ]
       ELSE Null

AtlasRecordOf(w, c) ==
    LET idx == CoarseCell(w, c)
        A   == w.atlasSize
        B   == w.brickSize
    IN AtlasRecord(w, ((idx - 1) % A) * B + (c[1] % B),
                      (((idx - 1) \div A) % A) * B + (c[2] % B),
                      ((idx - 1) \div (A * A)) * B + (c[3] % B))

C8_AtlasFidelity ==
    ret.op \in {"buildAtlas", "loadScene"} =>
      \A c \in AllCoords(world) :
         (Voxel(world, c) # Null /\ Voxel(world, c).a > 0)
           => AtlasRecordOf(world, c) = Voxel(world, c)

\* C9: every occupied voxel lies in a non-zero coarse cell; every non-zero
\* coarse cell value is a key of the brick store, of a brick of B^3 records;
\* no two coarse cells hold the same non-zero index.
C9_Structure ==
    /\ \A c \in DOMAIN written : written[c].a > 0 => CoarseCell(world, c) # 0
    /\ \A c \in AllCoords(world) :
         (Voxel(world, c) # Null /\ Voxel(world, c).a > 0) => CoarseCell(world, c) # 0
    /\ \A i \in NonZeroCells(world) :
         /\ world.coarseGrid[i] \in DOMAIN world.bricks
         /\ DOMAIN world.bricks[world.coarseGrid[i]]
              = 0..(world.brickSize * world.brickSize * world.brickSize * 4 - 1)
    /\ \A i \in NonZeroCells(world), j \in NonZeroCells(world) :
         i # j => world.coarseGrid[i] # world.coarseGrid[j]

C9_Witness ==
    /\ Cardinality(NonZeroCells(world)) >= 2
    /\ \E c \in DOMAIN written : written[c].a > 0
    /\ \E c \in DOMAIN written : written[c].a = 0

\* C10 as stated: over the whole session, across clear calls, the indices
\* issued are strictly increasing from 1 and no value is issued twice.
StrictlyIncreasingFromOne(s) ==
    /\ (Len(s) >= 1 => s[1] = 1)
    /\ \A i \in 1..Len(s), j \in 1..Len(s) : i < j => s[i] < s[j]

C10_SessionWide ==
    /\ StrictlyIncreasingFromOne(issued)
    /\ \A i \in Range(issued) : i \notin issuedBefore
    /\ \A i \in Range(issued), j \in issuedBefore : j < i

\* C10 amended: between two clear calls (and from construction to the first
\* clear) the indices issued are strictly increasing from 1, none issued
\* twice.
C10_PerClear == StrictlyIncreasingFromOne(issued)

C10_Witness ==
    /\ Len(issued) >= 2
    /\ issuedBefore # {}

\* C11 as stated: every allocated brick (non-zero coarse cell) holds at
\* least one voxel with a > 0.
CellOf(w, c) ==
    Region(w, c)[1] + Region(w, c)[2] * w.coarseSize
      + Region(w, c)[3] * w.coarseSize * w.coarseSize

C11_AlwaysOccupied ==
    \A i \in NonZeroCells(world) :
       world.coarseGrid[i] \in DOMAIN world.bricks
         => BrickOccupied(world.bricks[world.coarseGrid[i]]) > 0

\* C11 amended: every allocated brick has received an accepted setVoxel
\* since the most recent clear, and it holds a voxel with a > 0 exactly when
\* the record last written to one of its slots has a > 0.
C11_WrittenBrick ==
    \A i \in NonZeroCells(world) :
       /\ world.coarseGrid[i] \in DOMAIN world.bricks
       /\ \E c \in DOMAIN written : CellOf(world, c) = i
       /\ (BrickOccupied(world.bricks[world.coarseGrid[i]]) > 0)
            <=> (\E c \in DOMAIN written : CellOf(world, c) = i /\ written[c].a > 0)

\* A brick allocated by a write with a = 0 next to a brick with an occupied
\* voxel.
C11_Witness ==
    /\ \E i \in NonZeroCells(world) :
         BrickOccupied(world.bricks[world.coarseGrid[i]]) = 0
    /\ \E i \in NonZeroCells(world) :
         BrickOccupied(world.bricks[world.coarseGrid[i]]) > 0

\* ---------------------------------------------------------------------
\* Ray queries

Min(a, b) == IF a <= b THEN a ELSE b

\* The last query was a traceRay whose loop did not stop on the step
\* budget: it found a voxel, or it looked up fewer coarse cells than the
\* budget allows.
RayAnswered ==
    /\ hit.op = "traceRay"
    /\ hit.res.hit \/ Len(hit.log) < Min(hit.maxSteps, HardCap)

\* The occupied voxels the ray of the last query passes through.
OnRay == { v \in Occupied(world) : PassesThrough(hit.origin, hit.dir, v) }

\* C12 as stated: when the budget is not exhausted, traceRay reports a hit
\* exactly when the ray passes through an occupied voxel of the world box;
\* the reported position is then the first occupied voxel along the ray and
\* the reported color is the record stored there.
C12_FirstOccupied ==
    RayAnswered =>
      /\ hit.res.hit <=> OnRay # {}
      /\ hit.res.hit =>
           /\ hit.res.pos \in OnRay
           /\ \A u \in OnRay \ {hit.res.pos} :
                EntersBefore(hit.origin, hit.dir, hit.res.pos, u)
           /\ hit.res.color = Voxel(world, hit.res.pos)

\* The unit vector on axis i (1..3) pointing against the ray's step.
AgainstStep(dir, i) == Vec3([k \in 1..3 |-> IF k = i THEN 0 - Sign(dir[k]) ELSE 0])

\* The axes whose plane the ray crosses at the moment it enters voxel v
\* (several on an exact edge or corner entry, none when the ray starts
\* inside v).
EntryAxes(origin, dir, v) ==
    { i \in 1..3 : /\ dir[i] # 0
                   /\ AxisSpan(origin, dir, i, v[i], v[i] + 1).from
                        = VoxelSpan(origin, dir, v).from
                   /\ VoxelSpan(origin, dir, v).from >= 0 }

\* C13 as stated: on every hit the normal is the unit vector against the
\* step direction on the axis crossed to enter the hit voxel, the first
\* voxel visited inside a brick included.
C13_EntryNormal ==
    (hit.op = "traceRay" /\ hit.res.hit /\ EntryAxes(hit.origin, hit.dir, hit.res.pos) # {})
      => \E i \in EntryAxes(hit.origin, hit.dir, hit.res.pos) :
            hit.res.normal = AgainstStep(hit.dir, i)

\* The same statement for the hits found after at least one step of the
\* brick DDA (where the axis just crossed is known to traceBrick), on rays
\* whose slab tests have no 0/0.
AfterBrickStep ==
    /\ hit.op = "traceRay" /\ hit.res.hit
    /\ BuildsFor(hit.origin, hit.dir) = {"ieee"}
    /\ Len(hit.log[Len(hit.log)].brick) > 1

NormalAfterStep ==
    (AfterBrickStep /\ EntryAxes(hit.origin, hit.dir, hit.res.pos) # {})
      => \E i \in EntryAxes(hit.origin, hit.dir, hit.res.pos) :
            hit.res.normal = AgainstStep(hit.dir, i)

\* The hit-exactness scene and ray: B = 8, C = 1, the only written voxel is
\* (4,4,4) = (255,0,0,255), the ray starts at (4,4,-10) and points to
\* (0,0,1).
ExactnessQuery ==
    /\ gpu.brickSize = BRICK_SIZE /\ gpu.coarseGridSize = 1
    /\ DOMAIN written = { <<4, 4, 4>> }
    /\ written[<<4, 4, 4>>] = Rec(<<255, 0, 0, 255>>)
    /\ hit.op = "traceRay"
    /\ hit.origin = << 4 * Unit, 4 * Unit, 0 - 10 * Unit >>
    /\ hit.dir = <<0, 0, 1>>

\* C14: that query reports hit = true, color (255,0,0,255), normal
\* (0,0,-1) and distance 14.
C14_HitExactness ==
    ExactnessQuery =>
      /\ hit.res.hit
      /\ hit.res.color = Rec(<<255, 0, 0, 255>>)
      /\ hit.res.normal = <<0, 0, -1>>
      /\ hit.res.distance = 14 * Unit

\* The query has been answered, after four steps of the brick DDA from the
\* entry voxel (4,4,0).
C14_Witness ==
    /\ ExactnessQuery
    /\ hit.res.hit /\ hit.res.pos = <<4, 4, 4>>
    /\ Len(hit.log) = 1 /\ Len(hit.log[1].brick) = 5

\* The world size in voxels of the uploaded Brick Map.
WorldSize == gpu.coarseGridSize * gpu.brickSize

\* The last query was a traceRay whose ray starts outside the closed world
\* box and has no point in it: the box lies behind the origin or beside
\* the ray.
MissingRay ==
    /\ hit.op = "traceRay"
    /\ \E i \in 1..3 : hit.origin[i] < 0 \/ hit.origin[i] > WorldSize * Unit
    /\ ~MeetsWorldBox(hit.origin, hit.dir, WorldSize)

\* C15 as stated: a ray from outside that points away from the world box
\* or misses it gets hit = false and stepsTaken = 0, with no coarse-grid
\* lookup.
C15_BoundaryMiss ==
    MissingRay => /\ ~hit.res.hit
                  /\ hit.res.steps = 0
                  /\ hit.log = << >>

\* The same statement on the rays whose slab test has no 0/0 (no zero
\* direction component with the origin on a plane of the box).
MissWithoutNaN ==
    (MissingRay /\ BuildsFor(hit.origin, hit.dir) = {"ieee"})
       => /\ ~hit.res.hit
          /\ hit.res.steps = 0
          /\ hit.log = << >>

\* The index the Brick Map holds for a coarse cell.
IndexOfCell(w, cell) ==
    w.coarseGrid[cell[1] + cell[2] * w.coarseSize
                   + cell[3] * w.coarseSize * w.coarseSize]

\* C16: traceBrick is invoked only for visited coarse cells whose index is
\* non-zero, and a walk that visits only cells with index 0 reports no hit
\* with zero brick sub-traversals.
C16_CoarseSkip ==
    hit.op = "traceRay" =>
      /\ \A k \in 1..Len(hit.log) :
           /\ hit.log[k].index = IndexOfCell(world, hit.log[k].cell)
           /\ hit.log[k].called => hit.log[k].index # 0
           /\ ~hit.log[k].called => hit.log[k].brick = << >>
      /\ (\A k \in 1..Len(hit.log) : hit.log[k].index = 0)
           => /\ ~hit.res.hit
              /\ \A k \in 1..Len(hit.log) : ~hit.log[k].called

\* A walk over two or more coarse cells, all with index 0, in a world that
\* has a brick elsewhere.
C16_Witness ==
    /\ hit.op = "traceRay"
    /\ Len(hit.log) >= 2
    /\ \A k \in 1..Len(hit.log) : hit.log[k].index = 0 /\ ~hit.log[k].called
    /\ ~hit.res.hit
    /\ NonZeroCells(world) # {}

\* The coarse cell the walk of the last query would look up after log
\* entry k.
CellAfter(k) ==
    [hit.log[k].cell EXCEPT ![hit.log[k].axis + 1] = @ + Sign(hit.dir[hit.log[k].axis + 1])]

InGrid(cell) == \A i \in 1..3 : 0 <= cell[i] /\ cell[i] < gpu.coarseGridSize

\* C17: every traceRay returns a result whose stepsTaken is the number of
\* coarse cells looked up and is at most min(maxSteps, 512); a walk that
\* ends on the budget or outside the grid returns the plain no-hit result
\* with that step count.
C17_StepBudget ==
    hit.op = "traceRay" =>
      /\ hit.res.steps <= Min(hit.maxSteps, HardCap)
      /\ hit.res.steps = Len(hit.log)
      /\ hit.res.hit => hit.res.steps >= 1
      /\ ~hit.res.hit => hit.res = NoHit(hit.res.steps)

\* A walk stopped by a budget of one step while its next coarse cell is
\* still inside the grid.
C17_Witness ==
    /\ hit.op = "traceRay"
    /\ hit.maxSteps = 1 /\ hit.res.steps = 1 /\ ~hit.res.hit
    /\ Len(hit.log) = 1
    /\ InGrid(CellAfter(1))

\* The DDA steps of the last query, coarse and brick: the sideDist the
\* selection read and the axis (0, 1, 2) it stepped on.
DdaSteps ==
    { << hit.log[k].sideDist, hit.log[k].axis >> :
        k \in { n \in 1..Len(hit.log) : hit.log[n].axis >= 0 } }
    \cup UNION { { << hit.log[k].brick[m].sideDist, hit.log[k].brick[m].axis >> :
                     m \in { n \in 1..Len(hit.log[k].brick) : hit.log[k].brick[n].axis >= 0 } } :
                 k \in 1..Len(hit.log) }

\* The axes (1..3) that hold the smallest accumulated cross-distance.
Tied(sideDist) == { i \in 1..3 : \A j \in 1..3 : sideDist[i] <= sideDist[j] }

\* C18 as stated: on a tie the step is taken along the earliest tied axis
\* in the order x, y, z.
C18_EarliestTied ==
    \A e \in DdaSteps : \A i \in Tied(e[1]) : e[2] + 1 <= i

\* C18 amended: the step is taken along an axis of smallest cross-distance,
\* and on a tie along the latest tied axis in the order x, y, z (z before
\* y before x).
C18_LatestTied ==
    \A e \in DdaSteps :
       /\ e[2] + 1 \in Tied(e[1])
       /\ \A i \in Tied(e[1]) : i <= e[2] + 1

\* Steps taken on a tie that includes x: one between x and y only, one
\* between all three axes.
C18_Witness ==
    /\ \E e \in DdaSteps : Tied(e[1]) = {1, 2} /\ e[2] = 1
    /\ \E e \in DdaSteps : Tied(e[1]) = {1, 2, 3} /\ e[2] = 2

\* The voxels looked at by the brick sub-traversals of the last query, in
\* world coordinates.
VoxelsVisited ==
    UNION { { << hit.log[k].cell[1] * gpu.brickSize + hit.log[k].brick[m].pos[1],
                 hit.log[k].cell[2] * gpu.brickSize + hit.log[k].brick[m].pos[2],
                 hit.log[k].cell[3] * gpu.brickSize + hit.log[k].brick[m].pos[3] >> :
               m \in 1..Len(hit.log[k].brick) } : k \in 1..Len(hit.log) }

\* C19: on an axis where the direction is zero the cross-distance is
\* infinite, no coarse or brick DDA step is taken on that axis, and the
\* coarse cells and the voxels visited all have the same coordinate on it.
C19_ZeroComponent ==
    hit.op # "none" =>
      \A i \in { a \in 1..3 : hit.dir[a] = 0 } :
         /\ \A e \in DdaSteps : e[1][i] = Inf /\ e[2] + 1 # i
         /\ \A k, n \in 1..Len(hit.log) : hit.log[k].cell[i] = hit.log[n].cell[i]
         /\ \A v, u \in VoxelsVisited : v[i] = u[i]

\* A ray with a zero x component that walked over two coarse cells and
\* stepped inside a brick.
C19_Witness ==
    /\ hit.op = "traceRay"
    /\ hit.dir[1] = 0 /\ hit.dir[2] # 0 /\ hit.dir[3] # 0
    /\ Len(hit.log) >= 2
    /\ \E k \in 1..Len(hit.log) : Len(hit.log[k].brick) >= 2

\* The brick sub-traversal of log entry k of the last query reports a hit
\* (evaluated anew from the uploaded textures).
BrickReportsHit(k) ==
    /\ hit.log[k].index > 0
    /\ traceBrick(hit.build, gpu, hit.log[k].index, hit.origin, hit.dir,
                  hit.log[k].cell).res.hit

C26_Frame ==
    [][ \A c \in TestCoords(world), v \in TestValues :
          (ret'.op = "setVoxel" /\ SetVoxelCall(c, v) /\ InWorld(world, c))
            => \A d \in AllCoords(world) \ {c} : Voxel(world', d) = Voxel(world, d) ]_vars

\* An accepted write next to an occupied voxel of the same brick that
\* still holds its own, different record.
C26_Witness ==
    /\ ret.op = "setVoxel" /\ ret.ok = TRUE
    /\ \E c \in DOMAIN written, d \in DOMAIN written :
         /\ c # d /\ Region(world, c) = Region(world, d)
         /\ written[c] # written[d]
         /\ written[c].a > 0 /\ written[d].a > 0
         /\ Voxel(world, c) = written[c] /\ Voxel(world, d) = written[d]

\* C27: brickCount, the size of the brick store, nextBrickIndex - 1 and
\* the number of non-zero coarse cells are the same number; the indices
\* held by the coarse grid are exactly 1..brickCount, each the key of a
\* stored brick; brickCount is at most C^3.
C27_BrickAccounting ==
    /\ world.brickCount = Cardinality(DOMAIN world.bricks)
    /\ world.brickCount = world.nextBrickIndex - 1
    /\ world.brickCount = Cardinality(NonZeroCells(world))
    /\ { world.coarseGrid[i] : i \in NonZeroCells(world) } = 1..world.brickCount
    /\ DOMAIN world.bricks = 1..world.brickCount
    /\ world.brickCount <= world.coarseSize * world.coarseSize * world.coarseSize

\* Two bricks allocated again after a clear that removed at least one.
C27_Witness ==
    /\ world.brickCount = 2
    /\ issuedBefore # {}
    /\ Cardinality(NonZeroCells(world)) = 2

\* ---------------------------------------------------------------------
\* Brick walks

\* The brick walks of the last query: for each brick sub-traversal that
\* looked at a voxel, its log.
BrickWalks ==
    { hit.log[k].brick : k \in { n \in 1..Len(hit.log) : hit.log[n].brick # << >> } }

\* The local position a brick walk would look at after its entry m.
PosAfter(walk, m) ==
    [walk[m].pos EXCEPT ![walk[m].axis + 1] = @ + Sign(hit.dir[walk[m].axis + 1])]

InBrick(pos) == \A i \in 1..3 : 0 <= pos[i] /\ pos[i] < gpu.brickSize

\* C22: a brick walk looks at no more than 3*B voxels, and it never ends on
\* the iteration cap: it ends on a hit or on a step that leaves [0,B)^3.
C22_BrickCap ==
    \A walk \in BrickWalks :
       /\ Len(walk) <= 3 * gpu.brickSize
       /\ \/ walk[Len(walk)].axis = -1
          \/ ~InBrick(PosAfter(walk, Len(walk)))

\* A walk along the whole diagonal of a brick without a hit: 3*B - 2
\* voxels, the longest there is.
C22_Witness ==
    /\ hit.op = "traceRay"
    /\ \E walk \in BrickWalks :
         /\ Len(walk) = 3 * gpu.brickSize - 2
         /\ walk[Len(walk)].axis # -1

\* The coarse cells (grid positions) whose brick is allocated and holds no
\* voxel with a > 0.
EmptyBrickCells ==
    { i \in NonZeroCells(world) : BrickOccupied(world.bricks[world.coarseGrid[i]]) = 0 }

\* The uploaded textures with the cells of EmptyBrickCells set to 0, as
\* if those bricks had never been allocated.
WithoutEmptyBricks ==
    [gpu EXCEPT !.coarseGrid =
        [i \in DOMAIN gpu.coarseGrid |-> IF i \in EmptyBrickCells THEN 0 ELSE gpu.coarseGrid[i]]]

CellIndex(cell) ==
    cell[1] + cell[2] * gpu.coarseGridSize + cell[3] * gpu.coarseGridSize * gpu.coarseGridSize

\* C23: the sub-traversal of an allocated brick without an occupied voxel
\* runs, reports no hit and leaves the result as it was, and the coarse
\* walk goes on as over an empty cell: traceRay visits the same coarse
\* cells and returns the same result as with those cells set to 0.
C23_EmptyBrick ==
    hit.op = "traceRay" =>
      /\ \A k \in 1..Len(hit.log) :
           CellIndex(hit.log[k].cell) \in EmptyBrickCells
             => /\ hit.log[k].called
                /\ hit.log[k].axis # -1
                /\ k = Len(hit.log) => hit.res = NoHit(k)
      /\ LET t == traceRay(hit.build, WithoutEmptyBricks, hit.maxSteps, hit.origin, hit.dir)
         IN /\ t.res = hit.res
            /\ Len(t.log) = Len(hit.log)
            /\ \A k \in 1..Len(hit.log) :
                 /\ t.log[k].cell = hit.log[k].cell
                 /\ t.log[k].axis = hit.log[k].axis

\* A walk through an allocated brick that holds only a removed voxel (its
\* colour bytes still set), looked at by the brick DDA, with a hit in a
\* later coarse cell.
C23_Witness ==
    /\ hit.op = "traceRay"
    /\ hit.res.hit
    /\ Len(hit.log) >= 2
    /\ CellIndex(hit.log[1].cell) \in EmptyBrickCells
    /\ \E m \in 1..Len(hit.log[1].brick) :
         hit.log[1].cell = <<0, 0, 0>> /\ hit.log[1].brick[m].pos = ErasedVoxel(<<gpu.coarseGridSize, gpu.brickSize>>)

\* The walks of the last query as sequences of cells: the coarse walk and
\* every brick walk.
CellWalks ==
    { [k \in 1..Len(hit.log) |-> hit.log[k].cell] }
    \cup { [m \in 1..Len(walk) |-> walk[m].pos] : walk \in BrickWalks }

\* Cell u is the face neighbour of cell v on one axis, on the side the
\* direction points to.
NextAlongRay(v, u) ==
    \E i \in 1..3 :
       /\ hit.dir[i] # 0
       /\ u[i] - v[i] = (IF hit.dir[i] > 0 THEN 1 ELSE -1)
       /\ \A j \in (1..3) \ {i} : u[j] = v[j]

\* C24: in the coarse walk and in every brick walk, each step moves
\* exactly one coordinate by exactly one cell in the sign of the direction
\* on that axis, and no cell is visited twice.
C24_FaceAdjacent ==
    \A cells \in CellWalks :
       /\ \A k \in 1..(Len(cells) - 1) : NextAlongRay(cells[k], cells[k + 1])
       /\ \A k, n \in 1..Len(cells) : k # n => cells[k] # cells[n]

\* A coarse walk over three cells that changed axis, with a brick walk of
\* three voxels or more.
C24_Witness ==
    /\ hit.op = "traceRay"
    /\ Len(hit.log) >= 3
    /\ hit.log[1].axis # hit.log[2].axis
    /\ \E walk \in BrickWalks : Len(walk) >= 3

\* ---------------------------------------------------------------------
\* Texture reads

\* The texel of the brick atlas that traceBrick fetches for local position
\* pos of brick index.
TexelRead(index, pos) ==
    << brickIndexToAtlasPos(gpu, index)[1] * gpu.brickSize + pos[1],
       brickIndexToAtlasPos(gpu, index)[2] * gpu.brickSize + pos[2],
       brickIndexToAtlasPos(gpu, index)[3] * gpu.brickSize + pos[3] >>

\* C28: in traceRay and traceShadow every coarse lookup is at a cell of
\* [0,C)^3, every voxel lookup of traceBrick is at a local position of
\* [0,B)^3 of the brick whose index the coarse cell holds, and the texel
\* fetched lies inside the atlas, in the slot of that brick.
C28_ReadsInBounds ==
    hit.op # "none" =>
      \A k \in 1..Len(hit.log) :
         /\ InGrid(hit.log[k].cell)
         /\ hit.log[k].index = gpu.coarseGrid[CellIndex(hit.log[k].cell)]
         /\ \A m \in 1..Len(hit.log[k].brick) :
              /\ InBrick(hit.log[k].brick[m].pos)
              /\ \A i \in 1..3 :
                   /\ TexelRead(hit.log[k].index, hit.log[k].brick[m].pos)[i]
                        \in 0..(gpu.atlasSize * gpu.brickSize - 1)
                   /\ TexelRead(hit.log[k].index, hit.log[k].brick[m].pos)[i] \div gpu.brickSize
                        = brickIndexToAtlasPos(gpu, hit.log[k].index)[i]

\* A brick walk that starts from a clamped voxel: the ray meets the world
\* box in one point of its far face, and the start position lies past the
\* last voxel.
C28_Witness ==
    /\ hit.op = "traceRay"
    /\ hit.origin = << 7 * (Unit \div 2), Unit \div 2, 0 - 3 * (Unit \div 2) >>
    /\ hit.dir = <<-2, 1, 1>>
    /\ gpu.coarseGridSize = 1 /\ gpu.brickSize = 2
    /\ Len(hit.log) = 1
    /\ Len(hit.log[1].brick) >= 1
    /\ hit.log[1].brick[1].pos = <<0, 1, 0>>

\* ------------------------------------------------------------------------
\* The showcase application
\* ------------------------------------------------------------------------
\* A browser page runs one handler at a time, each to completion: a change
\* of the scene select, a change of the world-size select, or an animation
\* frame.  app holds the settings of ShowcaseApp, the number of frames
\* drawn, what the last rendering pass consumed and what the statistics
\* display shows.
MaxFrames == 2

\* SceneGenerators.sphere: a shell of radius size/2 - 2 and thickness
\* max(2, size * 0.04) around the centre.  With D = 2 * dist the tests
\* dist <= radius and dist >= radius - thickness are D <= size - 4 and
\* 25 * D >= 25 * (size - 4) - max(100, 2 * size), compared by squares.
SphereShell(size, x, y, z) ==
    LET d2 == (2 * x - size) * (2 * x - size) + (2 * y - size) * (2 * y - size)
              + (2 * z - size) * (2 * z - size)
        R  == size - 4
        L  == 25 * R - Max(100, 2 * size)
    IN /\ R >= 0
       /\ d2 <= R * R
       /\ (L <= 0 \/ 625 * d2 >= L * L)

SphereWrites(size) ==
    LET all == [ k \in 1..(size * size * size) |->
                   LET x == (k - 1) \div (size * size)
                       y == ((k - 1) \div size) % size
                       z == (k - 1) % size
                   IN << x, y, z, (x * 127) \div size + 128,
                         (y * 127) \div size + 128, (z * 127) \div size + 128 >> ]
        OnShell(wr) == SphereShell(size, wr[1], wr[2], wr[3])
    IN SelectSeq(all, OnShell)

sphere(w) ==
    LET writes == SphereWrites(w.worldSize)
    IN ApplyWrites([w |-> clear(w), written |-> EmptyMap, issued |-> << >>],
                   writes, 1, Len(writes))

\* The scene select offers names; SceneGenerators has a generator for some.
SceneNames == {"demo", "sphere", "unlisted"}

HasGenerator(sceneName) == sceneName \in {"demo", "sphere"}

\* What no rendering pass has consumed yet.
NoFrame ==
    [ coarseGridSize |-> 0, atlasSize |-> 0, brickSize |-> 0,
      coarseGrid |-> << >>, brickAtlas |-> << >> ]

\* Variant: the textures keep what they held.
texSubImageNone(g, w) == g

\* VoxelEngine.uploadWorld, GPU side: texSubImage3D of the coarse grid and
\* of the atlas just built into the two textures g.
texSubImage(g, w) ==
    [ g EXCEPT !.coarseGrid = w.coarseGrid,
               !.brickAtlas = buildAtlas(w).brickAtlasData ]

\* ShowcaseApp._loadScene on the state st = [w, gpu, written, issued] with
\* the generator's run gen: generator and uploadWorld if the name has a
\* generator, nothing otherwise.
loadScene(st, sceneName, gen) ==
    IF HasGenerator(sceneName)
    THEN [ w |-> uploadWorld(gen.w), gpu |-> texSubImage(st.gpu, gen.w),
           written |-> gen.written, issued |-> gen.issued ]
    ELSE st

\* The runs the generator of the name can make on world w.
GeneratorRuns(sceneName, w) ==
    IF sceneName = "demo"
    THEN { demo(w, scatter) :
             scatter \in [1..ScatterCount(w.worldSize) -> ScatterChoices(w.worldSize)] }
    ELSE IF sceneName = "sphere" THEN { sphere(w) }
    ELSE { [w |-> w, written |-> written, issued |-> issued] }

\* ShowcaseApp._initWorld: createWorld(coarseSize, brick size), then
\* _loadScene(currentScene).
initWorld(coarseSize, sceneName, gen) ==
    LET fresh == BrickMapWorld(coarseSize, brickSize)
    IN loadScene([ w |-> fresh, gpu |-> createTextures(fresh),
                   written |-> EmptyMap, issued |-> << >> ], sceneName, gen)

\* The constructor: the default coarse size (the atlas size, 64 of 64 in
\* the source), the demo scene, _initWorld.
InitApp ==
    /\ \E gen \in GeneratorRuns("demo", BrickMapWorld(atlasSize, brickSize)) :
         \E st \in { initWorld(atlasSize, "demo", gen) } :
         /\ world = st.w
         /\ gpu = st.gpu
         /\ written = st.written
         /\ issued = st.issued
    /\ app = [ coarseSize |-> atlasSize, currentScene |-> "demo", frames |-> 0,
               drawn |-> NoFrame, shownVoxels |-> 0, shownBricks |-> 0 ]
    /\ ret = Returned("new", TRUE, Null, 0)
    /\ ops = 0
    /\ issuedBefore = {}
    /\ hit = NoQuery
    /\ dense = VoxelWorld(0)
    /\ denseRet = Returned("new", TRUE, Null, 0)

\* The change handler of the scene select.
SceneChangeEvent(sceneName) ==
    /\ \E gen \in GeneratorRuns(sceneName, world) :
         \E st \in { loadScene([ w |-> world, gpu |-> gpu,
                                 written |-> written, issued |-> issued ],
                               sceneName, gen) } :
         /\ world' = st.w
         /\ gpu' = st.gpu
         /\ written' = st.written
         /\ issued' = st.issued
    /\ app' = [app EXCEPT !.currentScene = sceneName]
    /\ ret' = Returned("sceneChange", HasGenerator(sceneName), Null, world'.voxelCount)
    /\ issuedBefore' = IF HasGenerator(sceneName)
                       THEN issuedBefore \cup Range(issued) ELSE issuedBefore
    /\ UNCHANGED <<ops, hit, dense, denseRet>>

\* The change handler of the world-size select.
WorldSizeChangeEvent(coarseSize) ==
    /\ \E gen \in GeneratorRuns(app.currentScene, BrickMapWorld(coarseSize, brickSize)) :
         \E st \in { initWorld(coarseSize, app.currentScene, gen) } :
         /\ world' = st.w
         /\ gpu' = st.gpu
         /\ written' = st.written
         /\ issued' = st.issued
    /\ app' = [app EXCEPT !.coarseSize = coarseSize]
    /\ ret' = Returned("worldSizeChange", HasGenerator(app.currentScene), Null,
                       world'.voxelCount)
    /\ issuedBefore' = {}
    /\ UNCHANGED <<ops, hit, dense, denseRet>>

\* One animation frame: render() draws from the two textures and the size
\* uniforms taken from the world, then _updateStats shows the counters.
FrameCall ==
    /\ app.frames < MaxFrames
    /\ app' = [app EXCEPT !.frames = @ + 1,
                          !.drawn = [ coarseGridSize |-> world.coarseSize,
                                      atlasSize      |-> world.atlasSize,
                                      brickSize      |-> world.brickSize,
                                      coarseGrid     |-> gpu.coarseGrid,
                                      brickAtlas     |-> gpu.brickAtlas ],
                          !.shownVoxels = world.voxelCount,
                          !.shownBricks = world.brickCount]
    /\ ret' = Returned("frame", TRUE, Null, world.voxelCount)
    /\ UNCHANGED <<world, ops, written, issued, issuedBefore, gpu, hit, dense, denseRet>>

NextApp ==
    \/ \E sceneName \in SceneNames : SceneChangeEvent(sceneName)
    \/ \E coarseSize \in CoarseSizes : WorldSizeChangeEvent(coarseSize)
    \/ FrameCall

SpecApp == InitApp /\ [][NextApp]_vars

\* C21: whenever a frame has just been drawn, the coarse grid and the atlas
\* the rendering pass consumed are those of the world as it is now: its
\* coarse grid and the atlas built from its bricks, under the world's sizes.
C21_RenderFresh ==
    ret.op = "frame" => app.drawn = Textures(buildAtlas(world))

\* A frame drawn after a scene and a size were selected, on a world that
\* has bricks.
C21_Witness ==
    /\ ret.op = "frame"
    /\ app.currentScene = "sphere"
    /\ app.coarseSize = MaxCoarseSize
    /\ DOMAIN world.bricks # {}
    /\ app.drawn = Textures(buildAtlas(world))

\* C25: whenever a frame has just refreshed the statistics display, the
\* voxel count shown is the number of voxels with a > 0 in the world and
\* the brick count shown is the number of bricks of the world.
C25_StatsCurrent ==
    ret.op = "frame" =>
        /\ app.shownVoxels = OccupiedCount(world)
        /\ app.shownBricks = Cardinality(DOMAIN world.bricks)

\* The display refreshed after a change of scene that wrote voxels.
C25_Witness ==
    /\ ret.op = "frame"
    /\ app.currentScene = "sphere"
    /\ app.shownVoxels > 0
    /\ app.shownVoxels = OccupiedCount(world)
    /\ app.shownBricks > 1

\* C29: after the same calls, the brick-map world and the dense world of
\* the same size returned the same value from the last call, read the same
\* record or null at every coordinate inside and outside the world, and
\* count the same number of voxels.
C29_DenseEquivalent ==
    /\ denseRet = ret
    /\ \A c \in AllCoords(world) \cup TestCoords(world) :
         VoxelWorld_getVoxel(dense, c[1], c[2], c[3]) = Voxel(world, c)
    /\ VoxelWorld_countVoxels(dense).voxelCount = countVoxels(world).voxelCount

\* Both worlds counted two voxels while a third record, with a = 0, is
\* stored in a brick.
C29_Witness ==
    /\ ret.op = "countVoxels"
    /\ ret.count = 2
    /\ denseRet.count = 2
    /\ \E c \in AllCoords(world) :
         /\ Voxel(world, c) = Rec(<<7, 8, 9, 0>>)
         /\ VoxelWorld_getVoxel(dense, c[1], c[2], c[3]) = Rec(<<7, 8, 9, 0>>)

\* C30: a traceRay query under the engine's step budget reports the hit
\* flag, position, colour, normal and distance that the flat-grid traceRay
\* reports for the same ray on the dense world of the same contents.
\* It fails: traceBrick starts every brick with side = 0, the flat walk
\* keeps the axis of its last step.
C30_SameAsFlat ==
    (hit.op = "traceRay" /\ hit.maxSteps = DefaultMaxSteps) =>
        LET flat == flat_traceRay(hit.build, dense, hit.maxSteps, hit.origin, hit.dir)
        IN /\ hit.res.hit = flat.hit
           /\ hit.res.pos = flat.pos
           /\ hit.res.color = flat.color
           /\ hit.res.normal = flat.normal
           /\ hit.res.distance = flat.distance

\* The weaker agreement, on the hit flag, the voxel hit and its colour
\* alone.  It fails too: a ray that touches a voxel only at a lattice edge
\* where two crossings tie is a hit of the flat walk, while the brick walk
\* restarts past the edge and misses the voxel.
FlatSameVoxel ==
    (hit.op = "traceRay" /\ hit.maxSteps = DefaultMaxSteps) =>
        LET flat == flat_traceRay(hit.build, dense, hit.maxSteps, hit.origin, hit.dir)
        IN /\ hit.res.hit = flat.hit
           /\ hit.res.pos = flat.pos
           /\ hit.res.color = flat.color

\* The dense world of a trace holds what the brick map holds.
DenseSameContents ==
    \A c \in AllCoords(world) : VoxelWorld_getVoxel(dense, c[1], c[2], c[3]) = Voxel(world, c)

====
